---- MODULE Spec2Model ----
(***************************************************************************)
(* webbridge metadata extractor: the class locator and member classifier   *)
(* of tools/parser.py and the type mapper of tools/tstypes.py.             *)
(*                                                                         *)
(* A syntax-tree node is a record [type, text, utf8, children]: text is    *)
(* the source the node spans, whatever stands between its tokens there.    *)
(* Strings are TLA+ strings, read character by character as Python does.   *)
(***************************************************************************)
EXTENDS Integers, Sequences, FiniteSets, TLC

VARIABLES file, tree, target, sig, pc, result

vars == <<file, tree, target, sig, pc, result>>

---------------------------------------------------------------------------
(* Strings *)

\* Python strings are sequences of characters (code points); the strings here
\* are sequences of UTF-16 code units, where a character above U+FFFF is two
\* units, a high surrogate and then a low one.  The surrogates a string here
\* holds, read off one character for each:
Surrogates ==
    LET pairs == "𰏿𰟾𰯽𰿼𱏻𱟺𱯹𱿸𲏷𲟶𲯵𲿴𳏳𳟲𳯱𳿰𴏯𴟮𴯭𴿬𵏫𵟪𵯩𵿨𶏧𶟦𶯥𶿤𷏣𷟢𷯡𷿠𸏟𸟞𸯝𸿜𹏛𹟚𹯙𹿘𺏗𺟖𺯕𺿔𻏓𻟒𻯑𻿐𼏏𼟎𼯍𼿌𽏋𽟊𽯉𽿈𾏇𾟆𾯅𾿄𿏃𿟂𿯁𿿀񀎿񀞾񀮽񀾼񁎻񁞺񁮹񁾸񂎷񂞶񂮵񂾴񃎳񃞲񃮱񃾰񄎯񄞮񄮭񄾬񅎫񅞪񅮩񅾨񆎧񆞦񆮥񆾤񇎣񇞢񇮡񇾠񈎟񈞞񈮝񈾜񉎛񉞚񉮙񉾘񊎗񊞖񊮕񊾔񋎓񋞒񋮑񋾐񌎏񌞎񌮍񌾌񍎋񍞊񍮉񍾈񎎇񎞆񎮅񎾄񏎃񏞂񏮁񏾀񰋿񰛾񰫽񰻼񱋻񱛺񱫹񱻸񲋷񲛶񲫵񲻴񳋳񳛲񳫱񳻰񴋯񴛮񴫭񴻬񵋫񵛪񵫩񵻨񶋧񶛦񶫥񶻤񷋣񷛢񷫡񷻠񸋟񸛞񸫝񸻜񹋛񹛚񹫙񹻘񺋗񺛖񺫕񺻔񻋓񻛒񻫑񻻐񼋏񼛎񼫍񼻌񽋋񽛊񽫉񽻈񾋇񾛆񾫅񾻄񿋃񿛂񿫁񿻀򀊿򀚾򀪽򀺼򁊻򁚺򁪹򁺸򂊷򂚶򂪵򂺴򃊳򃚲򃪱򃺰򄊯򄚮򄪭򄺬򅊫򅚪򅪩򅺨򆊧򆚦򆪥򆺤򇊣򇚢򇪡򇺠򈊟򈚞򈪝򈺜򉊛򉚚򉪙򉺘򊊗򊚖򊪕򊺔򋊓򋚒򋪑򋺐򌊏򌚎򌪍򌺌򍊋򍚊򍪉򍺈򎊇򎚆򎪅򎺄򏊃򏚂򏪁򏺀򰇿򰗾򰧽򰷼򱇻򱗺򱧹򱷸򲇷򲗶򲧵򲷴򳇳򳗲򳧱򳷰򴇯򴗮򴧭򴷬򵇫򵗪򵧩򵷨򶇧򶗦򶧥򶷤򷇣򷗢򷧡򷷠򸇟򸗞򸧝򸷜򹇛򹗚򹧙򹷘򺇗򺗖򺧕򺷔򻇓򻗒򻧑򻷐򼇏򼗎򼧍򼷌򽇋򽗊򽧉򽷈򾇇򾗆򾧅򾷄򿇃򿗂򿧁򿷀󀆿󀖾󀦽󀶼󁆻󁖺󁦹󁶸󂆷󂖶󂦵󂶴󃆳󃖲󃦱󃶰󄆯󄖮󄦭󄶬󅆫󅖪󅦩󅶨󆆧󆖦󆦥󆶤󇆣󇖢󇦡󇶠󈆟󈖞󈦝󈶜󉆛󉖚󉦙󉶘󊆗󊖖󊦕󊶔󋆓󋖒󋦑󋶐󌆏󌖎󌦍󌶌󍆋󍖊󍦉󍶈󎆇󎖆󎦅󎶄󏆃󏖂󏦁󏶀󰃿󰓾󰣽󰳼󱃻󱓺󱣹󱳸󲃷󲓶󲣵󲳴󳃳󳓲󳣱󳳰󴃯󴓮󴣭󴳬󵃫󵓪󵣩󵳨󶃧󶓦󶣥󶳤󷃣󷓢󷣡󷳠󸃟󸓞󸣝󸳜󹃛󹓚󹣙󹳘󺃗󺓖󺣕󺳔󻃓󻓒󻣑󻳐󼃏󼓎󼣍󼳌󽃋󽓊󽣉󽳈󾃇󾓆󾣅󾳄󿃃󿓂󿣁󿳀􀂿􀒾􀢽􀲼􁂻􁒺􁢹􁲸􂂷􂒶􂢵􂲴􃂳􃒲􃢱􃲰􄂯􄒮􄢭􄲬􅂫􅒪􅢩􅲨􆂧􆒦􆢥􆲤􇂣􇒢􇢡􇲠􈂟􈒞􈢝􈲜􉂛􉒚􉢙􉲘􊂗􊒖􊢕􊲔􋂓􋒒􋢑􋲐􌂏􌒎􌢍􌲌􍂋􍒊􍢉􍲈􎂇􎒆􎢅􎲄􏂃􏒂􏢁􏲀"
    IN  [high |-> {SubSeq(pairs, 2 * i - 1, 2 * i - 1) : i \in 1..(Len(pairs) \div 2)},
         low |-> {SubSeq(pairs, 2 * i, 2 * i) : i \in 1..(Len(pairs) \div 2)}]

\* the unit at i is the second half of a character
IsTail(s, i) ==
    /\ 1 < i /\ i <= Len(s)
    /\ SubSeq(s, i, i) \in Surrogates.low
    /\ SubSeq(s, i - 1, i - 1) \in Surrogates.high

RECURSIVE CharsBetween(_, _, _)
\* the characters in the units lo..hi of s, which begin and end with a character
CharsBetween(s, lo, hi) ==
    IF lo > hi THEN <<>>
    ELSE IF lo = hi \/ (hi = lo + 1 /\ IsTail(s, hi)) THEN <<SubSeq(s, lo, hi)>>
    ELSE LET half == (lo + hi) \div 2
             mid == IF ~IsTail(s, half + 1) THEN half
                    ELSE IF half > lo THEN half - 1 ELSE half + 1
         IN  CharsBetween(s, lo, mid) \o CharsBetween(s, mid + 1, hi)

\* list(s): the characters of s in order; they are its units when none of
\* them is a low surrogate
Chars(s) ==
    IF \A i \in 1..Len(s) : SubSeq(s, i, i) \notin Surrogates.low
    THEN [i \in 1..Len(s) |-> SubSeq(s, i, i)]
    ELSE CharsBetween(s, 1, Len(s))

\* s[0], the first character
FirstChar(s) == IF IsTail(s, 2) THEN SubSeq(s, 1, 2) ELSE SubSeq(s, 1, 1)

\* s[-1], the last character
LastChar(s) ==
    IF IsTail(s, Len(s)) THEN SubSeq(s, Len(s) - 1, Len(s)) ELSE SubSeq(s, Len(s), Len(s))

\* s[lo - 1:hi], the characters from the lo-th to the hi-th
Slice(s, lo, hi) ==
    LET cs == Chars(s)
        UnitOf(k) == k + Cardinality({j \in 1..(k - 1) : Len(cs[j]) = 2})
    IN  IF Len(cs) = Len(s) THEN SubSeq(s, lo, hi)
        ELSE SubSeq(s, UnitOf(lo), UnitOf(hi + 1) - 1)

\* statement order: v is computed to its value before e is
Then(v, e) == IF v = v THEN e ELSE e

\* the characters c with c.isspace(), which str.strip() removes: blank, tab,
\* line feed, carriage return, form feed, then VT, FS, GS, RS, US, NEL, the
\* no-break space and the ogham space mark, written as they are.  A string
\* here holds the characters 1..255 and those above whose code ends in
\* 128..255; the other whitespace of Python lies outside.
Whitespace ==
    {" ", "\t", "\n", "\r", "\f", "", "", "", "", "", "", " ", " "}

\* the characters c with c.isalnum(), of the characters a string here holds:
\* those below U+10000, then those above
AlnumChars ==
    "0123456789ABCDEFGHIJKLMNOPQRSTUVWXYZabcdefghijklmnopqrstuvwxyzª²³µ¹º¼½¾ÀÁÂÃÄÅÆÇÈÉÊËÌÍÎÏÐÑÒÓÔÕÖØÙÚÛÜÝÞßàáâãäåæçèéêëìíîïðñòóôõöøùúûüýþÿƀƁƂƃƄƅƆƇƈƉƊƋƌƍƎƏƐƑƒƓƔƕƖƗƘƙƚƛƜƝƞƟƠơƢƣƤƥƦƧƨƩƪƫƬƭƮƯưƱƲƳƴƵƶƷƸƹƺƻƼƽƾƿǀǁǂǃǄǅǆǇǈǉǊǋǌǍǎǏǐǑǒǓǔǕǖǗǘǙǚǛǜǝǞǟǠǡǢǣǤǥǦǧǨǩǪǫǬǭǮǯǰǱǲǳǴǵǶǷǸǹǺǻǼǽǾǿʀʁʂʃʄʅʆʇʈʉʊʋʌʍʎʏʐʑʒʓʔʕʖʗʘʙʚʛʜʝʞʟʠʡʢʣʤʥʦʧʨʩʪʫʬʭʮʯʰʱʲʳʴʵʶʷʸʹʺʻʼʽʾʿˀˁˆˇˈˉˊˋˌˍˎˏːˑˠˡˢˣˤˬˮΆΈΉΊΌΎΏΐΑΒΓΔΕΖΗΘΙΚΛΜΝΞΟΠΡΣΤΥΦΧΨΩΪΫάέήίΰαβγδεζηθικλμνξοπρςστυφχψωϊϋόύώϏϐϑϒϓϔϕϖϗϘϙϚϛϜϝϞϟϠϡϢϣϤϥϦϧϨϩϪϫϬϭϮϯϰϱϲϳϴϵϷϸϹϺϻϼϽϾϿҀҁҊҋҌҍҎҏҐґҒғҔҕҖҗҘҙҚқҜҝҞҟҠҡҢңҤҥҦҧҨҩҪҫҬҭҮүҰұҲҳҴҵҶҷҸҹҺһҼҽҾҿӀӁӂӃӄӅӆӇӈӉӊӋӌӍӎӏӐӑӒӓӔӕӖӗӘәӚӛӜӝӞӟӠӡӢӣӤӥӦӧӨөӪӫӬӭӮӯӰӱӲӳӴӵӶӷӸӹӺӻӼӽӾӿրցւփքօֆևֈאבגדהוזחטיךכלםמןנסעףפץצקרשתׯװױײڀځڂڃڄڅچڇڈډڊڋڌڍڎڏڐڑڒړڔڕږڗژڙښڛڜڝڞڟڠڡڢڣڤڥڦڧڨکڪګڬڭڮگڰڱڲڳڴڵڶڷڸڹںڻڼڽھڿۀہۂۃۄۅۆۇۈۉۊۋیۍێۏېۑےۓەۥۦۮۯ۰۱۲۳۴۵۶۷۸۹ۺۻۼۿހށނރބޅކއވމފދތލގޏސޑޒޓޔޕޖޗޘޙޚޛޜޝޞޟޠޡޢޣޤޥޱ߀߁߂߃߄߅߆߇߈߉ߊߋߌߍߎߏߐߑߒߓߔߕߖߗߘߙߚߛߜߝߞߟߠߡߢߣߤߥߦߧߨߩߪߴߵߺࢀࢁࢂࢃࢄࢅࢆࢇࢉࢊࢋࢌࢍࢎࢠࢡࢢࢣࢤࢥࢦࢧࢨࢩࢪࢫࢬࢭࢮࢯࢰࢱࢲࢳࢴࢵࢶࢷࢸࢹࢺࢻࢼࢽࢾࢿࣀࣁࣂࣃࣄࣅࣆࣇࣈࣉঀঅআইঈউঊঋঌএঐওঔকখগঘঙচছজঝঞটঠডঢণতথদধনপফবভমযরলশষসহঽৎড়ঢ়য়ৠৡ০১২৩৪৫৬৭৮৯ৰৱ৴৵৶৷৸৹ৼઅઆઇઈઉઊઋઌઍએઐઑઓઔકખગઘઙચછજઝઞટઠડઢણતથદધનપફબભમયરલળવશષસહઽૐૠૡ૦૧૨૩૪૫૬૭૮૯ૹஃஅஆஇஈஉஊஎஏஐஒஓஔகஙசஜஞடணதநனபமயரறலளழவஶஷஸஹௐ௦௧௨௩௪௫௬௭௮௯௰௱௲ಀಅಆಇಈಉಊಋಌಎಏಐಒಓಔಕಖಗಘಙಚಛಜಝಞಟಠಡಢಣತಥದಧನಪಫಬಭಮಯರಱಲಳವಶಷಸಹಽೝೞೠೡ೦೧೨೩೪೫೬೭೮೯ೱೲඅආඇඈඉඊඋඌඍඎඏඐඑඒඓඔඕඖකඛගඝඞඟචඡජඣඤඥඦටඨඩඪණඬතථදධනඳපඵබභමඹයරලවශෂසහළෆ෦෧෨෩෪෫෬෭෮෯ກຂຄຆງຈຉຊຌຍຎຏຐຑຒຓດຕຖທຘນບປຜຝພຟຠມຢຣລວຨຩສຫຬອຮຯະາຳຽເແໂໃໄໆ໐໑໒໓໔໕໖໗໘໙ໜໝໞໟྈྉྊྋྌႀႁႎ႐႑႒႓႔႕႖႗႘႙ႠႡႢႣႤႥႦႧႨႩႪႫႬႭႮႯႰႱႲႳႴႵႶႷႸႹႺႻႼႽႾႿჀჁჂჃჄჅჇჍაბგდევზთიკლმნოპჟრსტუფქღყშჩცძწჭხჯჰჱჲჳჴჵჶჷჸჹჺჼჽჾჿᆀᆁᆂᆃᆄᆅᆆᆇᆈᆉᆊᆋᆌᆍᆎᆏᆐᆑᆒᆓᆔᆕᆖᆗᆘᆙᆚᆛᆜᆝᆞᆟᆠᆡᆢᆣᆤᆥᆦᆧᆨᆩᆪᆫᆬᆭᆮᆯᆰᆱᆲᆳᆴᆵᆶᆷᆸᆹᆺᆻᆼᆽᆾᆿᇀᇁᇂᇃᇄᇅᇆᇇᇈᇉᇊᇋᇌᇍᇎᇏᇐᇑᇒᇓᇔᇕᇖᇗᇘᇙᇚᇛᇜᇝᇞᇟᇠᇡᇢᇣᇤᇥᇦᇧᇨᇩᇪᇫᇬᇭᇮᇯᇰᇱᇲᇳᇴᇵᇶᇷᇸᇹᇺᇻᇼᇽᇾᇿኀኁኂኃኄኅኆኇኈኊኋኌኍነኑኒናኔንኖኗኘኙኚኛኜኝኞኟአኡኢኣኤእኦኧከኩኪካኬክኮኯኰኲኳኴኵኸኹኺኻኼኽኾዀዂዃዄዅወዉዊዋዌውዎዏዐዑዒዓዔዕዖዘዙዚዛዜዝዞዟዠዡዢዣዤዥዦዧየዩዪያዬይዮዯደዱዲዳዴድዶዷዸዹዺዻዼዽዾዿᎀᎁᎂᎃᎄᎅᎆᎇᎈᎉᎊᎋᎌᎍᎎᎏᎠᎡᎢᎣᎤᎥᎦᎧᎨᎩᎪᎫᎬᎭᎮᎯᎰᎱᎲᎳᎴᎵᎶᎷᎸᎹᎺᎻᎼᎽᎾᎿᏀᏁᏂᏃᏄᏅᏆᏇᏈᏉᏊᏋᏌᏍᏎᏏᏐᏑᏒᏓᏔᏕᏖᏗᏘᏙᏚᏛᏜᏝᏞᏟᏠᏡᏢᏣᏤᏥᏦᏧᏨᏩᏪᏫᏬᏭᏮᏯᏰᏱᏲᏳᏴᏵᏸᏹᏺᏻᏼᏽᒀᒁᒂᒃᒄᒅᒆᒇᒈᒉᒊᒋᒌᒍᒎᒏᒐᒑᒒᒓᒔᒕᒖᒗᒘᒙᒚᒛᒜᒝᒞᒟᒠᒡᒢᒣᒤᒥᒦᒧᒨᒩᒪᒫᒬᒭᒮᒯᒰᒱᒲᒳᒴᒵᒶᒷᒸᒹᒺᒻᒼᒽᒾᒿᓀᓁᓂᓃᓄᓅᓆᓇᓈᓉᓊᓋᓌᓍᓎᓏᓐᓑᓒᓓᓔᓕᓖᓗᓘᓙᓚᓛᓜᓝᓞᓟᓠᓡᓢᓣᓤᓥᓦᓧᓨᓩᓪᓫᓬᓭᓮᓯᓰᓱᓲᓳᓴᓵᓶᓷᓸᓹᓺᓻᓼᓽᓾᓿᖀᖁᖂᖃᖄᖅᖆᖇᖈᖉᖊᖋᖌᖍᖎᖏᖐᖑᖒᖓᖔᖕᖖᖗᖘᖙᖚᖛᖜᖝᖞᖟᖠᖡᖢᖣᖤᖥᖦᖧᖨᖩᖪᖫᖬᖭᖮᖯᖰᖱᖲᖳᖴᖵᖶᖷᖸᖹᖺᖻᖼᖽᖾᖿᗀᗁᗂᗃᗄᗅᗆᗇᗈᗉᗊᗋᗌᗍᗎᗏᗐᗑᗒᗓᗔᗕᗖᗗᗘᗙᗚᗛᗜᗝᗞᗟᗠᗡᗢᗣᗤᗥᗦᗧᗨᗩᗪᗫᗬᗭᗮᗯᗰᗱᗲᗳᗴᗵᗶᗷᗸᗹᗺᗻᗼᗽᗾᗿᚁᚂᚃᚄᚅᚆᚇᚈᚉᚊᚋᚌᚍᚎᚏᚐᚑᚒᚓᚔᚕᚖᚗᚘᚙᚚᚠᚡᚢᚣᚤᚥᚦᚧᚨᚩᚪᚫᚬᚭᚮᚯᚰᚱᚲᚳᚴᚵᚶᚷᚸᚹᚺᚻᚼᚽᚾᚿᛀᛁᛂᛃᛄᛅᛆᛇᛈᛉᛊᛋᛌᛍᛎᛏᛐᛑᛒᛓᛔᛕᛖᛗᛘᛙᛚᛛᛜᛝᛞᛟᛠᛡᛢᛣᛤᛥᛦᛧᛨᛩᛪᛮᛯᛰᛱᛲᛳᛴᛵᛶᛷᛸកខគឃងចឆជឈញដឋឌឍណតថទធនបផពភមយរលវឝឞសហឡអឣឤឥឦឧឨឩឪឫឬឭឮឯឰឱឲឳៗៜ០១២៣៤៥៦៧៨៩៰៱៲៳៴៵៶៷៸៹ᢀᢁᢂᢃᢄᢇᢈᢉᢊᢋᢌᢍᢎᢏᢐᢑᢒᢓᢔᢕᢖᢗᢘᢙᢚᢛᢜᢝᢞᢟᢠᢡᢢᢣᢤᢥᢦᢧᢨᢪᢰᢱᢲᢳᢴᢵᢶᢷᢸᢹᢺᢻᢼᢽᢾᢿᣀᣁᣂᣃᣄᣅᣆᣇᣈᣉᣊᣋᣌᣍᣎᣏᣐᣑᣒᣓᣔᣕᣖᣗᣘᣙᣚᣛᣜᣝᣞᣟᣠᣡᣢᣣᣤᣥᣦᣧᣨᣩᣪᣫᣬᣭᣮᣯᣰᣱᣲᣳᣴᣵᦀᦁᦂᦃᦄᦅᦆᦇᦈᦉᦊᦋᦌᦍᦎᦏᦐᦑᦒᦓᦔᦕᦖᦗᦘᦙᦚᦛᦜᦝᦞᦟᦠᦡᦢᦣᦤᦥᦦᦧᦨᦩᦪᦫᦰᦱᦲᦳᦴᦵᦶᦷᦸᦹᦺᦻᦼᦽᦾᦿᧀᧁᧂᧃᧄᧅᧆᧇᧈᧉ᧐᧑᧒᧓᧔᧕᧖᧗᧘᧙᧚᪀᪁᪂᪃᪄᪅᪆᪇᪈᪉᪐᪑᪒᪓᪔᪕᪖᪗᪘᪙ᪧᮃᮄᮅᮆᮇᮈᮉᮊᮋᮌᮍᮎᮏᮐᮑᮒᮓᮔᮕᮖᮗᮘᮙᮚᮛᮜᮝᮞᮟᮠᮮᮯ᮰᮱᮲᮳᮴᮵᮶᮷᮸᮹ᮺᮻᮼᮽᮾᮿᯀᯁᯂᯃᯄᯅᯆᯇᯈᯉᯊᯋᯌᯍᯎᯏᯐᯑᯒᯓᯔᯕᯖᯗᯘᯙᯚᯛᯜᯝᯞᯟᯠᯡᯢᯣᯤᯥᲀᲁᲂᲃᲄᲅᲆᲇᲈᲐᲑᲒᲓᲔᲕᲖᲗᲘᲙᲚᲛᲜᲝᲞᲟᲠᲡᲢᲣᲤᲥᲦᲧᲨᲩᲪᲫᲬᲭᲮᲯᲰᲱᲲᲳᲴᲵᲶᲷᲸᲹᲺᲽᲾᲿᳩᳪᳫᳬᳮᳯᳰᳱᳲᳳᳵᳶᳺᶀᶁᶂᶃᶄᶅᶆᶇᶈᶉᶊᶋᶌᶍᶎᶏᶐᶑᶒᶓᶔᶕᶖᶗᶘᶙᶚᶛᶜᶝᶞᶟᶠᶡᶢᶣᶤᶥᶦᶧᶨᶩᶪᶫᶬᶭᶮᶯᶰᶱᶲᶳᶴᶵᶶᶷᶸᶹᶺᶻᶼᶽᶾᶿẀẁẂẃẄẅẆẇẈẉẊẋẌẍẎẏẐẑẒẓẔẕẖẗẘẙẚẛẜẝẞẟẠạẢảẤấẦầẨẩẪẫẬậẮắẰằẲẳẴẵẶặẸẹẺẻẼẽẾếỀềỂểỄễỆệỈỉỊịỌọỎỏỐốỒồỔổỖỗỘộỚớỜờỞởỠỡỢợỤụỦủỨứỪừỬửỮữỰựỲỳỴỵỶỷỸỹỺỻỼỽỾỿᾀᾁᾂᾃᾄᾅᾆᾇᾈᾉᾊᾋᾌᾍᾎᾏᾐᾑᾒᾓᾔᾕᾖᾗᾘᾙᾚᾛᾜᾝᾞᾟᾠᾡᾢᾣᾤᾥᾦᾧᾨᾩᾪᾫᾬᾭᾮᾯᾰᾱᾲᾳᾴᾶᾷᾸᾹᾺΆᾼιῂῃῄῆῇῈΈῊΉῌῐῑῒΐῖῗῘῙῚΊῠῡῢΰῤῥῦῧῨῩῪΎῬῲῳῴῶῷῸΌῺΏῼ₀₁₂₃₄₅₆₇₈₉ₐₑₒₓₔₕₖₗₘₙₚₛₜↀↁↂↃↄↅↆↇↈ↉⒀⒁⒂⒃⒄⒅⒆⒇⒈⒉⒊⒋⒌⒍⒎⒏⒐⒑⒒⒓⒔⒕⒖⒗⒘⒙⒚⒛⓪⓫⓬⓭⓮⓯⓰⓱⓲⓳⓴⓵⓶⓷⓸⓹⓺⓻⓼⓽⓾⓿➀➁➂➃➄➅➆➇➈➉➊➋➌➍➎➏➐➑➒➓ⲀⲁⲂⲃⲄⲅⲆⲇⲈⲉⲊⲋⲌⲍⲎⲏⲐⲑⲒⲓⲔⲕⲖⲗⲘⲙⲚⲛⲜⲝⲞⲟⲠⲡⲢⲣⲤⲥⲦⲧⲨⲩⲪⲫⲬⲭⲮⲯⲰⲱⲲⲳⲴⲵⲶⲷⲸⲹⲺⲻⲼⲽⲾⲿⳀⳁⳂⳃⳄⳅⳆⳇⳈⳉⳊⳋⳌⳍⳎⳏⳐⳑⳒⳓⳔⳕⳖⳗⳘⳙⳚⳛⳜⳝⳞⳟⳠⳡⳢⳣⳤⳫⳬⳭⳮⳲⳳ⳽ⶀⶁⶂⶃⶄⶅⶆⶇⶈⶉⶊⶋⶌⶍⶎⶏⶐⶑⶒⶓⶔⶕⶖⶠⶡⶢⶣⶤⶥⶦⶨⶩⶪⶫⶬⶭⶮⶰⶱⶲⶳⶴⶵⶶⶸⶹⶺⶻⶼⶽⶾⷀⷁⷂⷃⷄⷅⷆⷈⷉⷊⷋⷌⷍⷎⷐⷑⷒⷓⷔⷕⷖⷘⷙⷚⷛⷜⷝⷞむめもゃやゅゆょよらりるれろゎわゐゑをんゔゕゖゝゞゟァアィイゥウェエォオカガキギクグケゲコゴサザシジスズセゼソゾタダチヂッツヅテデトドナニヌネノハバパヒビピフブプヘベペホボポマミムメモャヤュユョヨラリルレロヮワヰヱヲンヴヵヶヷヸヹヺーヽヾヿㆀㆁㆂㆃㆄㆅㆆㆇㆈㆉㆊㆋㆌㆍㆎ㆒㆓㆔㆕ㆠㆡㆢㆣㆤㆥㆦㆧㆨㆩㆪㆫㆬㆭㆮㆯㆰㆱㆲㆳㆴㆵㆶㆷㆸㆹㆺㆻㆼㆽㆾㆿㇰㇱㇲㇳㇴㇵㇶㇷㇸㇹㇺㇻㇼㇽㇾㇿ㊀㊁㊂㊃㊄㊅㊆㊇㊈㊉㊱㊲㊳㊴㊵㊶㊷㊸㊹㊺㊻㊼㊽㊾㊿㒀㒁㒂㒃㒄㒅㒆㒇㒈㒉㒊㒋㒌㒍㒎㒏㒐㒑㒒㒓㒔㒕㒖㒗㒘㒙㒚㒛㒜㒝㒞㒟㒠㒡㒢㒣㒤㒥㒦㒧㒨㒩㒪㒫㒬㒭㒮㒯㒰㒱㒲㒳㒴㒵㒶㒷㒸㒹㒺㒻㒼㒽㒾㒿㓀㓁㓂㓃㓄㓅㓆㓇㓈㓉㓊㓋㓌㓍㓎㓏㓐㓑㓒㓓㓔㓕㓖㓗㓘㓙㓚㓛㓜㓝㓞㓟㓠㓡㓢㓣㓤㓥㓦㓧㓨㓩㓪㓫㓬㓭㓮㓯㓰㓱㓲㓳㓴㓵㓶㓷㓸㓹㓺㓻㓼㓽㓾㓿㖀㖁㖂㖃㖄㖅㖆㖇㖈㖉㖊㖋㖌㖍㖎㖏㖐㖑㖒㖓㖔㖕㖖㖗㖘㖙㖚㖛㖜㖝㖞㖟㖠㖡㖢㖣㖤㖥㖦㖧㖨㖩㖪㖫㖬㖭㖮㖯㖰㖱㖲㖳㖴㖵㖶㖷㖸㖹㖺㖻㖼㖽㖾㖿㗀㗁㗂㗃㗄㗅㗆㗇㗈㗉㗊㗋㗌㗍㗎㗏㗐㗑㗒㗓㗔㗕㗖㗗㗘㗙㗚㗛㗜㗝㗞㗟㗠㗡㗢㗣㗤㗥㗦㗧㗨㗩㗪㗫㗬㗭㗮㗯㗰㗱㗲㗳㗴㗵㗶㗷㗸㗹㗺㗻㗼㗽㗾㗿㚀㚁㚂㚃㚄㚅㚆㚇㚈㚉㚊㚋㚌㚍㚎㚏㚐㚑㚒㚓㚔㚕㚖㚗㚘㚙㚚㚛㚜㚝㚞㚟㚠㚡㚢㚣㚤㚥㚦㚧㚨㚩㚪㚫㚬㚭㚮㚯㚰㚱㚲㚳㚴㚵㚶㚷㚸㚹㚺㚻㚼㚽㚾㚿㛀㛁㛂㛃㛄㛅㛆㛇㛈㛉㛊㛋㛌㛍㛎㛏㛐㛑㛒㛓㛔㛕㛖㛗㛘㛙㛚㛛㛜㛝㛞㛟㛠㛡㛢㛣㛤㛥㛦㛧㛨㛩㛪㛫㛬㛭㛮㛯㛰㛱㛲㛳㛴㛵㛶㛷㛸㛹㛺㛻㛼㛽㛾㛿㞀㞁㞂㞃㞄㞅㞆㞇㞈㞉㞊㞋㞌㞍㞎㞏㞐㞑㞒㞓㞔㞕㞖㞗㞘㞙㞚㞛㞜㞝㞞㞟㞠㞡㞢㞣㞤㞥㞦㞧㞨㞩㞪㞫㞬㞭㞮㞯㞰㞱㞲㞳㞴㞵㞶㞷㞸㞹㞺㞻㞼㞽㞾㞿㟀㟁㟂㟃㟄㟅㟆㟇㟈㟉㟊㟋㟌㟍㟎㟏㟐㟑㟒㟓㟔㟕㟖㟗㟘㟙㟚㟛㟜㟝㟞㟟㟠㟡㟢㟣㟤㟥㟦㟧㟨㟩㟪㟫㟬㟭㟮㟯㟰㟱㟲㟳㟴㟵㟶㟷㟸㟹㟺㟻㟼㟽㟾㟿㢀㢁㢂㢃㢄㢅㢆㢇㢈㢉㢊㢋㢌㢍㢎㢏㢐㢑㢒㢓㢔㢕㢖㢗㢘㢙㢚㢛㢜㢝㢞㢟㢠㢡㢢㢣㢤㢥㢦㢧㢨㢩㢪㢫㢬㢭㢮㢯㢰㢱㢲㢳㢴㢵㢶㢷㢸㢹㢺㢻㢼㢽㢾㢿㣀㣁㣂㣃㣄㣅㣆㣇㣈㣉㣊㣋㣌㣍㣎㣏㣐㣑㣒㣓㣔㣕㣖㣗㣘㣙㣚㣛㣜㣝㣞㣟㣠㣡㣢㣣㣤㣥㣦㣧㣨㣩㣪㣫㣬㣭㣮㣯㣰㣱㣲㣳㣴㣵㣶㣷㣸㣹㣺㣻㣼㣽㣾㣿㦀㦁㦂㦃㦄㦅㦆㦇㦈㦉㦊㦋㦌㦍㦎㦏㦐㦑㦒㦓㦔㦕㦖㦗㦘㦙㦚㦛㦜㦝㦞㦟㦠㦡㦢㦣㦤㦥㦦㦧㦨㦩㦪㦫㦬㦭㦮㦯㦰㦱㦲㦳㦴㦵㦶㦷㦸㦹㦺㦻㦼㦽㦾㦿㧀㧁㧂㧃㧄㧅㧆㧇㧈㧉㧊㧋㧌㧍㧎㧏㧐㧑㧒㧓㧔㧕㧖㧗㧘㧙㧚㧛㧜㧝㧞㧟㧠㧡㧢㧣㧤㧥㧦㧧㧨㧩㧪㧫㧬㧭㧮㧯㧰㧱㧲㧳㧴㧵㧶㧷㧸㧹㧺㧻㧼㧽㧾㧿㪀㪁㪂㪃㪄㪅㪆㪇㪈㪉㪊㪋㪌㪍㪎㪏㪐㪑㪒㪓㪔㪕㪖㪗㪘㪙㪚㪛㪜㪝㪞㪟㪠㪡㪢㪣㪤㪥㪦㪧㪨㪩㪪㪫㪬㪭㪮㪯㪰㪱㪲㪳㪴㪵㪶㪷㪸㪹㪺㪻㪼㪽㪾㪿㫀㫁㫂㫃㫄㫅㫆㫇㫈㫉㫊㫋㫌㫍㫎㫏㫐㫑㫒㫓㫔㫕㫖㫗㫘㫙㫚㫛㫜㫝㫞㫟㫠㫡㫢㫣㫤㫥㫦㫧㫨㫩㫪㫫㫬㫭㫮㫯㫰㫱㫲㫳㫴㫵㫶㫷㫸㫹㫺㫻㫼㫽㫾㫿㮀㮁㮂㮃㮄㮅㮆㮇㮈㮉㮊㮋㮌㮍㮎㮏㮐㮑㮒㮓㮔㮕㮖㮗㮘㮙㮚㮛㮜㮝㮞㮟㮠㮡㮢㮣㮤㮥㮦㮧㮨㮩㮪㮫㮬㮭㮮㮯㮰㮱㮲㮳㮴㮵㮶㮷㮸㮹㮺㮻㮼㮽㮾㮿㯀㯁㯂㯃㯄㯅㯆㯇㯈㯉㯊㯋㯌㯍㯎㯏㯐㯑㯒㯓㯔㯕㯖㯗㯘㯙㯚㯛㯜㯝㯞㯟㯠㯡㯢㯣㯤㯥㯦㯧㯨㯩㯪㯫㯬㯭㯮㯯㯰㯱㯲㯳㯴㯵㯶㯷㯸㯹㯺㯻㯼㯽㯾㯿㲀㲁㲂㲃㲄㲅㲆㲇㲈㲉㲊㲋㲌㲍㲎㲏㲐㲑㲒㲓㲔㲕㲖㲗㲘㲙㲚㲛㲜㲝㲞㲟㲠㲡㲢㲣㲤㲥㲦㲧㲨㲩㲪㲫㲬㲭㲮㲯㲰㲱㲲㲳㲴㲵㲶㲷㲸㲹㲺㲻㲼㲽㲾㲿㳀㳁㳂㳃㳄㳅㳆㳇㳈㳉㳊㳋㳌㳍㳎㳏㳐㳑㳒㳓㳔㳕㳖㳗㳘㳙㳚㳛㳜㳝㳞㳟㳠㳡㳢㳣㳤㳥㳦㳧㳨㳩㳪㳫㳬㳭㳮㳯㳰㳱㳲㳳㳴㳵㳶㳷㳸㳹㳺㳻㳼㳽㳾㳿㶀㶁㶂㶃㶄㶅㶆㶇㶈㶉㶊㶋㶌㶍㶎㶏㶐㶑㶒㶓㶔㶕㶖㶗㶘㶙㶚㶛㶜㶝㶞㶟㶠㶡㶢㶣㶤㶥㶦㶧㶨㶩㶪㶫㶬㶭㶮㶯㶰㶱㶲㶳㶴㶵㶶㶷㶸㶹㶺㶻㶼㶽㶾㶿㷀㷁㷂㷃㷄㷅㷆㷇㷈㷉㷊㷋㷌㷍㷎㷏㷐㷑㷒㷓㷔㷕㷖㷗㷘㷙㷚㷛㷜㷝㷞㷟㷠㷡㷢㷣㷤㷥㷦㷧㷨㷩㷪㷫㷬㷭㷮㷯㷰㷱㷲㷳㷴㷵㷶㷷㷸㷹㷺㷻㷼㷽㷾㷿㺀㺁㺂㺃㺄㺅㺆㺇㺈㺉㺊㺋㺌㺍㺎㺏㺐㺑㺒㺓㺔㺕㺖㺗㺘㺙㺚㺛㺜㺝㺞㺟㺠㺡㺢㺣㺤㺥㺦㺧㺨㺩㺪㺫㺬㺭㺮㺯㺰㺱㺲㺳㺴㺵㺶㺷㺸㺹㺺㺻㺼㺽㺾㺿㻀㻁㻂㻃㻄㻅㻆㻇㻈㻉㻊㻋㻌㻍㻎㻏㻐㻑㻒㻓㻔㻕㻖㻗㻘㻙㻚㻛㻜㻝㻞㻟㻠㻡㻢㻣㻤㻥㻦㻧㻨㻩㻪㻫㻬㻭㻮㻯㻰㻱㻲㻳㻴㻵㻶㻷㻸㻹㻺㻻㻼㻽㻾㻿㾀㾁㾂㾃㾄㾅㾆㾇㾈㾉㾊㾋㾌㾍㾎㾏㾐㾑㾒㾓㾔㾕㾖㾗㾘㾙㾚㾛㾜㾝㾞㾟㾠㾡㾢㾣㾤㾥㾦㾧㾨㾩㾪㾫㾬㾭㾮㾯㾰㾱㾲㾳㾴㾵㾶㾷㾸㾹㾺㾻㾼㾽㾾㾿㿀㿁㿂㿃㿄㿅㿆㿇㿈㿉㿊㿋㿌㿍㿎㿏㿐㿑㿒㿓㿔㿕㿖㿗㿘㿙㿚㿛㿜㿝㿞㿟㿠㿡㿢㿣㿤㿥㿦㿧㿨㿩㿪㿫㿬㿭㿮㿯㿰㿱㿲㿳㿴㿵㿶㿷㿸㿹㿺㿻㿼㿽㿾㿿䂀䂁䂂䂃䂄䂅䂆䂇䂈䂉䂊䂋䂌䂍䂎䂏䂐䂑䂒䂓䂔䂕䂖䂗䂘䂙䂚䂛䂜䂝䂞䂟䂠䂡䂢䂣䂤䂥䂦䂧䂨䂩䂪䂫䂬䂭䂮䂯䂰䂱䂲䂳䂴䂵䂶䂷䂸䂹䂺䂻䂼䂽䂾䂿䃀䃁䃂䃃䃄䃅䃆䃇䃈䃉䃊䃋䃌䃍䃎䃏䃐䃑䃒䃓䃔䃕䃖䃗䃘䃙䃚䃛䃜䃝䃞䃟䃠䃡䃢䃣䃤䃥䃦䃧䃨䃩䃪䃫䃬䃭䃮䃯䃰䃱䃲䃳䃴䃵䃶䃷䃸䃹䃺䃻䃼䃽䃾䃿䆀䆁䆂䆃䆄䆅䆆䆇䆈䆉䆊䆋䆌䆍䆎䆏䆐䆑䆒䆓䆔䆕䆖䆗䆘䆙䆚䆛䆜䆝䆞䆟䆠䆡䆢䆣䆤䆥䆦䆧䆨䆩䆪䆫䆬䆭䆮䆯䆰䆱䆲䆳䆴䆵䆶䆷䆸䆹䆺䆻䆼䆽䆾䆿䇀䇁䇂䇃䇄䇅䇆䇇䇈䇉䇊䇋䇌䇍䇎䇏䇐䇑䇒䇓䇔䇕䇖䇗䇘䇙䇚䇛䇜䇝䇞䇟䇠䇡䇢䇣䇤䇥䇦䇧䇨䇩䇪䇫䇬䇭䇮䇯䇰䇱䇲䇳䇴䇵䇶䇷䇸䇹䇺䇻䇼䇽䇾䇿䊀䊁䊂䊃䊄䊅䊆䊇䊈䊉䊊䊋䊌䊍䊎䊏䊐䊑䊒䊓䊔䊕䊖䊗䊘䊙䊚䊛䊜䊝䊞䊟䊠䊡䊢䊣䊤䊥䊦䊧䊨䊩䊪䊫䊬䊭䊮䊯䊰䊱䊲䊳䊴䊵䊶䊷䊸䊹䊺䊻䊼䊽䊾䊿䋀䋁䋂䋃䋄䋅䋆䋇䋈䋉䋊䋋䋌䋍䋎䋏䋐䋑䋒䋓䋔䋕䋖䋗䋘䋙䋚䋛䋜䋝䋞䋟䋠䋡䋢䋣䋤䋥䋦䋧䋨䋩䋪䋫䋬䋭䋮䋯䋰䋱䋲䋳䋴䋵䋶䋷䋸䋹䋺䋻䋼䋽䋾䋿䎀䎁䎂䎃䎄䎅䎆䎇䎈䎉䎊䎋䎌䎍䎎䎏䎐䎑䎒䎓䎔䎕䎖䎗䎘䎙䎚䎛䎜䎝䎞䎟䎠䎡䎢䎣䎤䎥䎦䎧䎨䎩䎪䎫䎬䎭䎮䎯䎰䎱䎲䎳䎴䎵䎶䎷䎸䎹䎺䎻䎼䎽䎾䎿䏀䏁䏂䏃䏄䏅䏆䏇䏈䏉䏊䏋䏌䏍䏎䏏䏐䏑䏒䏓䏔䏕䏖䏗䏘䏙䏚䏛䏜䏝䏞䏟䏠䏡䏢䏣䏤䏥䏦䏧䏨䏩䏪䏫䏬䏭䏮䏯䏰䏱䏲䏳䏴䏵䏶䏷䏸䏹䏺䏻䏼䏽䏾䏿䒀䒁䒂䒃䒄䒅䒆䒇䒈䒉䒊䒋䒌䒍䒎䒏䒐䒑䒒䒓䒔䒕䒖䒗䒘䒙䒚䒛䒜䒝䒞䒟䒠䒡䒢䒣䒤䒥䒦䒧䒨䒩䒪䒫䒬䒭䒮䒯䒰䒱䒲䒳䒴䒵䒶䒷䒸䒹䒺䒻䒼䒽䒾䒿䓀䓁䓂䓃䓄䓅䓆䓇䓈䓉䓊䓋䓌䓍䓎䓏䓐䓑䓒䓓䓔䓕䓖䓗䓘䓙䓚䓛䓜䓝䓞䓟䓠䓡䓢䓣䓤䓥䓦䓧䓨䓩䓪䓫䓬䓭䓮䓯䓰䓱䓲䓳䓴䓵䓶䓷䓸䓹䓺䓻䓼䓽䓾䓿䖀䖁䖂䖃䖄䖅䖆䖇䖈䖉䖊䖋䖌䖍䖎䖏䖐䖑䖒䖓䖔䖕䖖䖗䖘䖙䖚䖛䖜䖝䖞䖟䖠䖡䖢䖣䖤䖥䖦䖧䖨䖩䖪䖫䖬䖭䖮䖯䖰䖱䖲䖳䖴䖵䖶䖷䖸䖹䖺䖻䖼䖽䖾䖿䗀䗁䗂䗃䗄䗅䗆䗇䗈䗉䗊䗋䗌䗍䗎䗏䗐䗑䗒䗓䗔䗕䗖䗗䗘䗙䗚䗛䗜䗝䗞䗟䗠䗡䗢䗣䗤䗥䗦䗧䗨䗩䗪䗫䗬䗭䗮䗯䗰䗱䗲䗳䗴䗵䗶䗷䗸䗹䗺䗻䗼䗽䗾䗿䚀䚁䚂䚃䚄䚅䚆䚇䚈䚉䚊䚋䚌䚍䚎䚏䚐䚑䚒䚓䚔䚕䚖䚗䚘䚙䚚䚛䚜䚝䚞䚟䚠䚡䚢䚣䚤䚥䚦䚧䚨䚩䚪䚫䚬䚭䚮䚯䚰䚱䚲䚳䚴䚵䚶䚷䚸䚹䚺䚻䚼䚽䚾䚿䛀䛁䛂䛃䛄䛅䛆䛇䛈䛉䛊䛋䛌䛍䛎䛏䛐䛑䛒䛓䛔䛕䛖䛗䛘䛙䛚䛛䛜䛝䛞䛟䛠䛡䛢䛣䛤䛥䛦䛧䛨䛩䛪䛫䛬䛭䛮䛯䛰䛱䛲䛳䛴䛵䛶䛷䛸䛹䛺䛻䛼䛽䛾䛿䞀䞁䞂䞃䞄䞅䞆䞇䞈䞉䞊䞋䞌䞍䞎䞏䞐䞑䞒䞓䞔䞕䞖䞗䞘䞙䞚䞛䞜䞝䞞䞟䞠䞡䞢䞣䞤䞥䞦䞧䞨䞩䞪䞫䞬䞭䞮䞯䞰䞱䞲䞳䞴䞵䞶䞷䞸䞹䞺䞻䞼䞽䞾䞿䟀䟁䟂䟃䟄䟅䟆䟇䟈䟉䟊䟋䟌䟍䟎䟏䟐䟑䟒䟓䟔䟕䟖䟗䟘䟙䟚䟛䟜䟝䟞䟟䟠䟡䟢䟣䟤䟥䟦䟧䟨䟩䟪䟫䟬䟭䟮䟯䟰䟱䟲䟳䟴䟵䟶䟷䟸䟹䟺䟻䟼䟽䟾䟿䢀䢁䢂䢃䢄䢅䢆䢇䢈䢉䢊䢋䢌䢍䢎䢏䢐䢑䢒䢓䢔䢕䢖䢗䢘䢙䢚䢛䢜䢝䢞䢟䢠䢡䢢䢣䢤䢥䢦䢧䢨䢩䢪䢫䢬䢭䢮䢯䢰䢱䢲䢳䢴䢵䢶䢷䢸䢹䢺䢻䢼䢽䢾䢿䣀䣁䣂䣃䣄䣅䣆䣇䣈䣉䣊䣋䣌䣍䣎䣏䣐䣑䣒䣓䣔䣕䣖䣗䣘䣙䣚䣛䣜䣝䣞䣟䣠䣡䣢䣣䣤䣥䣦䣧䣨䣩䣪䣫䣬䣭䣮䣯䣰䣱䣲䣳䣴䣵䣶䣷䣸䣹䣺䣻䣼䣽䣾䣿䦀䦁䦂䦃䦄䦅䦆䦇䦈䦉䦊䦋䦌䦍䦎䦏䦐䦑䦒䦓䦔䦕䦖䦗䦘䦙䦚䦛䦜䦝䦞䦟䦠䦡䦢䦣䦤䦥䦦䦧䦨䦩䦪䦫䦬䦭䦮䦯䦰䦱䦲䦳䦴䦵䦶䦷䦸䦹䦺䦻䦼䦽䦾䦿䧀䧁䧂䧃䧄䧅䧆䧇䧈䧉䧊䧋䧌䧍䧎䧏䧐䧑䧒䧓䧔䧕䧖䧗䧘䧙䧚䧛䧜䧝䧞䧟䧠䧡䧢䧣䧤䧥䧦䧧䧨䧩䧪䧫䧬䧭䧮䧯䧰䧱䧲䧳䧴䧵䧶䧷䧸䧹䧺䧻䧼䧽䧾䧿䪀䪁䪂䪃䪄䪅䪆䪇䪈䪉䪊䪋䪌䪍䪎䪏䪐䪑䪒䪓䪔䪕䪖䪗䪘䪙䪚䪛䪜䪝䪞䪟䪠䪡䪢䪣䪤䪥䪦䪧䪨䪩䪪䪫䪬䪭䪮䪯䪰䪱䪲䪳䪴䪵䪶䪷䪸䪹䪺䪻䪼䪽䪾䪿䫀䫁䫂䫃䫄䫅䫆䫇䫈䫉䫊䫋䫌䫍䫎䫏䫐䫑䫒䫓䫔䫕䫖䫗䫘䫙䫚䫛䫜䫝䫞䫟䫠䫡䫢䫣䫤䫥䫦䫧䫨䫩䫪䫫䫬䫭䫮䫯䫰䫱䫲䫳䫴䫵䫶䫷䫸䫹䫺䫻䫼䫽䫾䫿䮀䮁䮂䮃䮄䮅䮆䮇䮈䮉䮊䮋䮌䮍䮎䮏䮐䮑䮒䮓䮔䮕䮖䮗䮘䮙䮚䮛䮜䮝䮞䮟䮠䮡䮢䮣䮤䮥䮦䮧䮨䮩䮪䮫䮬䮭䮮䮯䮰䮱䮲䮳䮴䮵䮶䮷䮸䮹䮺䮻䮼䮽䮾䮿䯀䯁䯂䯃䯄䯅䯆䯇䯈䯉䯊䯋䯌䯍䯎䯏䯐䯑䯒䯓䯔䯕䯖䯗䯘䯙䯚䯛䯜䯝䯞䯟䯠䯡䯢䯣䯤䯥䯦䯧䯨䯩䯪䯫䯬䯭䯮䯯䯰䯱䯲䯳䯴䯵䯶䯷䯸䯹䯺䯻䯼䯽䯾䯿䲀䲁䲂䲃䲄䲅䲆䲇䲈䲉䲊䲋䲌䲍䲎䲏䲐䲑䲒䲓䲔䲕䲖䲗䲘䲙䲚䲛䲜䲝䲞䲟䲠䲡䲢䲣䲤䲥䲦䲧䲨䲩䲪䲫䲬䲭䲮䲯䲰䲱䲲䲳䲴䲵䲶䲷䲸䲹䲺䲻䲼䲽䲾䲿䳀䳁䳂䳃䳄䳅䳆䳇䳈䳉䳊䳋䳌䳍䳎䳏䳐䳑䳒䳓䳔䳕䳖䳗䳘䳙䳚䳛䳜䳝䳞䳟䳠䳡䳢䳣䳤䳥䳦䳧䳨䳩䳪䳫䳬䳭䳮䳯䳰䳱䳲䳳䳴䳵䳶䳷䳸䳹䳺䳻䳼䳽䳾䳿䶀䶁䶂䶃䶄䶅䶆䶇䶈䶉䶊䶋䶌䶍䶎䶏䶐䶑䶒䶓䶔䶕䶖䶗䶘䶙䶚䶛䶜䶝䶞䶟䶠䶡䶢䶣䶤䶥䶦䶧䶨䶩䶪䶫䶬䶭䶮䶯䶰䶱䶲䶳䶴䶵䶶䶷䶸䶹䶺䶻䶼䶽䶾䶿亀亁亂亃亄亅了亇予争亊事二亍于亏亐云互亓五井亖亗亘亙亚些亜亝亞亟亠亡亢亣交亥亦产亨亩亪享京亭亮亯亰亱亲亳亴亵亶亷亸亹人亻亼亽亾亿什仁仂仃仄仅仆仇仈仉今介仌仍从仏仐仑仒仓仔仕他仗付仙仚仛仜仝仞仟仠仡仢代令以仦仧仨仩仪仫们仭仮仯仰仱仲仳仴仵件价仸仹仺任仼份仾仿侀侁侂侃侄侅來侇侈侉侊例侌侍侎侏侐侑侒侓侔侕侖侗侘侙侚供侜依侞侟侠価侢侣侤侥侦侧侨侩侪侫侬侭侮侯侰侱侲侳侴侵侶侷侸侹侺侻侼侽侾便俀俁係促俄俅俆俇俈俉俊俋俌俍俎俏俐俑俒俓俔俕俖俗俘俙俚俛俜保俞俟俠信俢俣俤俥俦俧俨俩俪俫俬俭修俯俰俱俲俳俴俵俶俷俸俹俺俻俼俽俾俿傀傁傂傃傄傅傆傇傈傉傊傋傌傍傎傏傐傑傒傓傔傕傖傗傘備傚傛傜傝傞傟傠傡傢傣傤傥傦傧储傩傪傫催傭傮傯傰傱傲傳傴債傶傷傸傹傺傻傼傽傾傿僀僁僂僃僄僅僆僇僈僉僊僋僌働僎像僐僑僒僓僔僕僖僗僘僙僚僛僜僝僞僟僠僡僢僣僤僥僦僧僨僩僪僫僬僭僮僯僰僱僲僳僴僵僶僷僸價僺僻僼僽僾僿冀冁冂冃冄内円冇冈冉冊冋册再冎冏冐冑冒冓冔冕冖冗冘写冚军农冝冞冟冠冡冢冣冤冥冦冧冨冩冪冫冬冭冮冯冰冱冲决冴况冶冷冸冹冺冻冼冽冾冿净凁凂凃凄凅准凇凈凉凊凋凌凍凎减凐凑凒凓凔凕凖凗凘凙凚凛凜凝凞凟几凡凢凣凤凥処凧凨凩凪凫凬凭凮凯凰凱凲凳凴凵凶凷凸凹出击凼函凾凿劀劁劂劃劄劅劆劇劈劉劊劋劌劍劎劏劐劑劒劓劔劕劖劗劘劙劚力劜劝办功加务劢劣劤劥劦劧动助努劫劬劭劮劯劰励劲劳労劵劶劷劸効劺劻劼劽劾势勀勁勂勃勄勅勆勇勈勉勊勋勌勍勎勏勐勑勒勓勔動勖勗勘務勚勛勜勝勞募勠勡勢勣勤勥勦勧勨勩勪勫勬勭勮勯勰勱勲勳勴勵勶勷勸勹勺勻勼勽勾勿厀厁厂厃厄厅历厇厈厉厊压厌厍厎厏厐厑厒厓厔厕厖厗厘厙厚厛厜厝厞原厠厡厢厣厤厥厦厧厨厩厪厫厬厭厮厯厰厱厲厳厴厵厶厷厸厹厺去厼厽厾县叀叁参參叄叅叆叇又叉及友双反収叏叐发叒叓叔叕取受变叙叚叛叜叝叞叟叠叡叢口古句另叧叨叩只叫召叭叮可台叱史右叴叵叶号司叹叺叻叼叽叾叿咀咁咂咃咄咅咆咇咈咉咊咋和咍咎咏咐咑咒咓咔咕咖咗咘咙咚咛咜咝咞咟咠咡咢咣咤咥咦咧咨咩咪咫咬咭咮咯咰咱咲咳咴咵咶咷咸咹咺咻咼咽咾咿哀品哂哃哄哅哆哇哈哉哊哋哌响哎哏哐哑哒哓哔哕哖哗哘哙哚哛哜哝哞哟哠員哢哣哤哥哦哧哨哩哪哫哬哭哮哯哰哱哲哳哴哵哶哷哸哹哺哻哼哽哾哿喀喁喂喃善喅喆喇喈喉喊喋喌喍喎喏喐喑喒喓喔喕喖喗喘喙喚喛喜喝喞喟喠喡喢喣喤喥喦喧喨喩喪喫喬喭單喯喰喱喲喳喴喵営喷喸喹喺喻喼喽喾喿嗀嗁嗂嗃嗄嗅嗆嗇嗈嗉嗊嗋嗌嗍嗎嗏嗐嗑嗒嗓嗔嗕嗖嗗嗘嗙嗚嗛嗜嗝嗞嗟嗠嗡嗢嗣嗤嗥嗦嗧嗨嗩嗪嗫嗬嗭嗮嗯嗰嗱嗲嗳嗴嗵嗶嗷嗸嗹嗺嗻嗼嗽嗾嗿嚀嚁嚂嚃嚄嚅嚆嚇嚈嚉嚊嚋嚌嚍嚎嚏嚐嚑嚒嚓嚔嚕嚖嚗嚘嚙嚚嚛嚜嚝嚞嚟嚠嚡嚢嚣嚤嚥嚦嚧嚨嚩嚪嚫嚬嚭嚮嚯嚰嚱嚲嚳嚴嚵嚶嚷嚸嚹嚺嚻嚼嚽嚾嚿囀囁囂囃囄囅囆囇囈囉囊囋囌囍囎囏囐囑囒囓囔囕囖囗囘囙囚四囜囝回囟因囡团団囤囥囦囧囨囩囪囫囬园囮囯困囱囲図围囵囶囷囸囹固囻囼国图囿垀垁垂垃垄垅垆垇垈垉垊型垌垍垎垏垐垑垒垓垔垕垖垗垘垙垚垛垜垝垞垟垠垡垢垣垤垥垦垧垨垩垪垫垬垭垮垯垰垱垲垳垴垵垶垷垸垹垺垻垼垽垾垿埀埁埂埃埄埅埆埇埈埉埊埋埌埍城埏埐埑埒埓埔埕埖埗埘埙埚埛埜埝埞域埠埡埢埣埤埥埦埧埨埩埪埫埬埭埮埯埰埱埲埳埴埵埶執埸培基埻埼埽埾埿墀墁墂境墄墅墆墇墈墉墊墋墌墍墎墏墐墑墒墓墔墕墖増墘墙墚墛墜墝增墟墠墡墢墣墤墥墦墧墨墩墪墫墬墭墮墯墰墱墲墳墴墵墶墷墸墹墺墻墼墽墾墿壀壁壂壃壄壅壆壇壈壉壊壋壌壍壎壏壐壑壒壓壔壕壖壗壘壙壚壛壜壝壞壟壠壡壢壣壤壥壦壧壨壩壪士壬壭壮壯声壱売壳壴壵壶壷壸壹壺壻壼壽壾壿妀妁如妃妄妅妆妇妈妉妊妋妌妍妎妏妐妑妒妓妔妕妖妗妘妙妚妛妜妝妞妟妠妡妢妣妤妥妦妧妨妩妪妫妬妭妮妯妰妱妲妳妴妵妶妷妸妹妺妻妼妽妾妿姀姁姂姃姄姅姆姇姈姉姊始姌姍姎姏姐姑姒姓委姕姖姗姘姙姚姛姜姝姞姟姠姡姢姣姤姥姦姧姨姩姪姫姬姭姮姯姰姱姲姳姴姵姶姷姸姹姺姻姼姽姾姿媀媁媂媃媄媅媆媇媈媉媊媋媌媍媎媏媐媑媒媓媔媕媖媗媘媙媚媛媜媝媞媟媠媡媢媣媤媥媦媧媨媩媪媫媬媭媮媯媰媱媲媳媴媵媶媷媸媹媺媻媼媽媾媿嫀嫁嫂嫃嫄嫅嫆嫇嫈嫉嫊嫋嫌嫍嫎嫏嫐嫑嫒嫓嫔嫕嫖嫗嫘嫙嫚嫛嫜嫝嫞嫟嫠嫡嫢嫣嫤嫥嫦嫧嫨嫩嫪嫫嫬嫭嫮嫯嫰嫱嫲嫳嫴嫵嫶嫷嫸嫹嫺嫻嫼嫽嫾嫿宀宁宂它宄宅宆宇守安宊宋完宍宎宏宐宑宒宓宔宕宖宗官宙定宛宜宝实実宠审客宣室宥宦宧宨宩宪宫宬宭宮宯宰宱宲害宴宵家宷宸容宺宻宼宽宾宿寀寁寂寃寄寅密寇寈寉寊寋富寍寎寏寐寑寒寓寔寕寖寗寘寙寚寛寜寝寞察寠寡寢寣寤寥實寧寨審寪寫寬寭寮寯寰寱寲寳寴寵寶寷寸对寺寻导寽対寿岀岁岂岃岄岅岆岇岈岉岊岋岌岍岎岏岐岑岒岓岔岕岖岗岘岙岚岛岜岝岞岟岠岡岢岣岤岥岦岧岨岩岪岫岬岭岮岯岰岱岲岳岴岵岶岷岸岹岺岻岼岽岾岿峀峁峂峃峄峅峆峇峈峉峊峋峌峍峎峏峐峑峒峓峔峕峖峗峘峙峚峛峜峝峞峟峠峡峢峣峤峥峦峧峨峩峪峫峬峭峮峯峰峱峲峳峴峵島峷峸峹峺峻峼峽峾峿嶀嶁嶂嶃嶄嶅嶆嶇嶈嶉嶊嶋嶌嶍嶎嶏嶐嶑嶒嶓嶔嶕嶖嶗嶘嶙嶚嶛嶜嶝嶞嶟嶠嶡嶢嶣嶤嶥嶦嶧嶨嶩嶪嶫嶬嶭嶮嶯嶰嶱嶲嶳嶴嶵嶶嶷嶸嶹嶺嶻嶼嶽嶾嶿巀巁巂巃巄巅巆巇巈巉巊巋巌巍巎巏巐巑巒巓巔巕巖巗巘巙巚巛巜川州巟巠巡巢巣巤工左巧巨巩巪巫巬巭差巯巰己已巳巴巵巶巷巸巹巺巻巼巽巾巿庀庁庂広庄庅庆庇庈庉床庋庌庍庎序庐庑庒库应底庖店庘庙庚庛府庝庞废庠庡庢庣庤庥度座庨庩庪庫庬庭庮庯庰庱庲庳庴庵庶康庸庹庺庻庼庽庾庿廀廁廂廃廄廅廆廇廈廉廊廋廌廍廎廏廐廑廒廓廔廕廖廗廘廙廚廛廜廝廞廟廠廡廢廣廤廥廦廧廨廩廪廫廬廭廮廯廰廱廲廳廴廵延廷廸廹建廻廼廽廾廿往征徂徃径待徆徇很徉徊律後徍徎徏徐徑徒従徔徕徖得徘徙徚徛徜徝從徟徠御徢徣徤徥徦徧徨復循徫徬徭微徯徰徱徲徳徴徵徶德徸徹徺徻徼徽徾徿忀忁忂心忄必忆忇忈忉忊忋忌忍忎忏忐忑忒忓忔忕忖志忘忙忚忛応忝忞忟忠忡忢忣忤忥忦忧忨忩忪快忬忭忮忯忰忱忲忳忴念忶忷忸忹忺忻忼忽忾忿悀悁悂悃悄悅悆悇悈悉悊悋悌悍悎悏悐悑悒悓悔悕悖悗悘悙悚悛悜悝悞悟悠悡悢患悤悥悦悧您悩悪悫悬悭悮悯悰悱悲悳悴悵悶悷悸悹悺悻悼悽悾悿惀惁惂惃惄情惆惇惈惉惊惋惌惍惎惏惐惑惒惓惔惕惖惗惘惙惚惛惜惝惞惟惠惡惢惣惤惥惦惧惨惩惪惫惬惭惮惯惰惱惲想惴惵惶惷惸惹惺惻惼惽惾惿憀憁憂憃憄憅憆憇憈憉憊憋憌憍憎憏憐憑憒憓憔憕憖憗憘憙憚憛憜憝憞憟憠憡憢憣憤憥憦憧憨憩憪憫憬憭憮憯憰憱憲憳憴憵憶憷憸憹憺憻憼憽憾憿懀懁懂懃懄懅懆懇懈應懊懋懌懍懎懏懐懑懒懓懔懕懖懗懘懙懚懛懜懝懞懟懠懡懢懣懤懥懦懧懨懩懪懫懬懭懮懯懰懱懲懳懴懵懶懷懸懹懺懻懼懽懾懿技抁抂抃抄抅抆抇抈抉把抋抌抍抎抏抐抑抒抓抔投抖抗折抙抚抛抜抝択抟抠抡抢抣护报抦抧抨抩抪披抬抭抮抯抰抱抲抳抴抵抶抷抸抹抺抻押抽抾抿拀拁拂拃拄担拆拇拈拉拊拋拌拍拎拏拐拑拒拓拔拕拖拗拘拙拚招拜拝拞拟拠拡拢拣拤拥拦拧拨择拪拫括拭拮拯拰拱拲拳拴拵拶拷拸拹拺拻拼拽拾拿掀掁掂掃掄掅掆掇授掉掊掋掌掍掎掏掐掑排掓掔掕掖掗掘掙掚掛掜掝掞掟掠採探掣掤接掦控推掩措掫掬掭掮掯掰掱掲掳掴掵掶掷掸掹掺掻掼掽掾掿揀揁揂揃揄揅揆揇揈揉揊揋揌揍揎描提揑插揓揔揕揖揗揘揙揚換揜揝揞揟揠握揢揣揤揥揦揧揨揩揪揫揬揭揮揯揰揱揲揳援揵揶揷揸揹揺揻揼揽揾揿撀撁撂撃撄撅撆撇撈撉撊撋撌撍撎撏撐撑撒撓撔撕撖撗撘撙撚撛撜撝撞撟撠撡撢撣撤撥撦撧撨撩撪撫撬播撮撯撰撱撲撳撴撵撶撷撸撹撺撻撼撽撾撿擀擁擂擃擄擅擆擇擈擉擊擋擌操擎擏擐擑擒擓擔擕擖擗擘擙據擛擜擝擞擟擠擡擢擣擤擥擦擧擨擩擪擫擬擭擮擯擰擱擲擳擴擵擶擷擸擹擺擻擼擽擾擿斀斁斂斃斄斅斆文斈斉斊斋斌斍斎斏斐斑斒斓斔斕斖斗斘料斚斛斜斝斞斟斠斡斢斣斤斥斦斧斨斩斪斫斬断斮斯新斱斲斳斴斵斶斷斸方斺斻於施斾斿旀旁旂旃旄旅旆旇旈旉旊旋旌旍旎族旐旑旒旓旔旕旖旗旘旙旚旛旜旝旞旟无旡既旣旤日旦旧旨早旪旫旬旭旮旯旰旱旲旳旴旵时旷旸旹旺旻旼旽旾旿暀暁暂暃暄暅暆暇暈暉暊暋暌暍暎暏暐暑暒暓暔暕暖暗暘暙暚暛暜暝暞暟暠暡暢暣暤暥暦暧暨暩暪暫暬暭暮暯暰暱暲暳暴暵暶暷暸暹暺暻暼暽暾暿曀曁曂曃曄曅曆曇曈曉曊曋曌曍曎曏曐曑曒曓曔曕曖曗曘曙曚曛曜曝曞曟曠曡曢曣曤曥曦曧曨曩曪曫曬曭曮曯曰曱曲曳更曵曶曷書曹曺曻曼曽曾替枀极枂枃构枅枆枇枈枉枊枋枌枍枎枏析枑枒枓枔枕枖林枘枙枚枛果枝枞枟枠枡枢枣枤枥枦枧枨枩枪枫枬枭枮枯枰枱枲枳枴枵架枷枸枹枺枻枼枽枾枿柀柁柂柃柄柅柆柇柈柉柊柋柌柍柎柏某柑柒染柔柕柖柗柘柙柚柛柜柝柞柟柠柡柢柣柤查柦柧柨柩柪柫柬柭柮柯柰柱柲柳柴柵柶柷柸柹柺査柼柽柾柿梀梁梂梃梄梅梆梇梈梉梊梋梌梍梎梏梐梑梒梓梔梕梖梗梘梙梚梛梜條梞梟梠梡梢梣梤梥梦梧梨梩梪梫梬梭梮梯械梱梲梳梴梵梶梷梸梹梺梻梼梽梾梿检棁棂棃棄棅棆棇棈棉棊棋棌棍棎棏棐棑棒棓棔棕棖棗棘棙棚棛棜棝棞棟棠棡棢棣棤棥棦棧棨棩棪棫棬棭森棯棰棱棲棳棴棵棶棷棸棹棺棻棼棽棾棿榀榁概榃榄榅榆榇榈榉榊榋榌榍榎榏榐榑榒榓榔榕榖榗榘榙榚榛榜榝榞榟榠榡榢榣榤榥榦榧榨榩榪榫榬榭榮榯榰榱榲榳榴榵榶榷榸榹榺榻榼榽榾榿槀槁槂槃槄槅槆槇槈槉槊構槌槍槎槏槐槑槒槓槔槕槖槗様槙槚槛槜槝槞槟槠槡槢槣槤槥槦槧槨槩槪槫槬槭槮槯槰槱槲槳槴槵槶槷槸槹槺槻槼槽槾槿檀檁檂檃檄檅檆檇檈檉檊檋檌檍檎檏檐檑檒檓檔檕檖檗檘檙檚檛檜檝檞檟檠檡檢檣檤檥檦檧檨檩檪檫檬檭檮檯檰檱檲檳檴檵檶檷檸檹檺檻檼檽檾檿櫀櫁櫂櫃櫄櫅櫆櫇櫈櫉櫊櫋櫌櫍櫎櫏櫐櫑櫒櫓櫔櫕櫖櫗櫘櫙櫚櫛櫜櫝櫞櫟櫠櫡櫢櫣櫤櫥櫦櫧櫨櫩櫪櫫櫬櫭櫮櫯櫰櫱櫲櫳櫴櫵櫶櫷櫸櫹櫺櫻櫼櫽櫾櫿殀殁殂殃殄殅殆殇殈殉殊残殌殍殎殏殐殑殒殓殔殕殖殗殘殙殚殛殜殝殞殟殠殡殢殣殤殥殦殧殨殩殪殫殬殭殮殯殰殱殲殳殴段殶殷殸殹殺殻殼殽殾殿毀毁毂毃毄毅毆毇毈毉毊毋毌母毎每毐毑毒毓比毕毖毗毘毙毚毛毜毝毞毟毠毡毢毣毤毥毦毧毨毩毪毫毬毭毮毯毰毱毲毳毴毵毶毷毸毹毺毻毼毽毾毿沀沁沂沃沄沅沆沇沈沉沊沋沌沍沎沏沐沑沒沓沔沕沖沗沘沙沚沛沜沝沞沟沠没沢沣沤沥沦沧沨沩沪沫沬沭沮沯沰沱沲河沴沵沶沷沸油沺治沼沽沾沿泀況泂泃泄泅泆泇泈泉泊泋泌泍泎泏泐泑泒泓泔法泖泗泘泙泚泛泜泝泞泟泠泡波泣泤泥泦泧注泩泪泫泬泭泮泯泰泱泲泳泴泵泶泷泸泹泺泻泼泽泾泿涀涁涂涃涄涅涆涇消涉涊涋涌涍涎涏涐涑涒涓涔涕涖涗涘涙涚涛涜涝涞涟涠涡涢涣涤涥润涧涨涩涪涫涬涭涮涯涰涱液涳涴涵涶涷涸涹涺涻涼涽涾涿淀淁淂淃淄淅淆淇淈淉淊淋淌淍淎淏淐淑淒淓淔淕淖淗淘淙淚淛淜淝淞淟淠淡淢淣淤淥淦淧淨淩淪淫淬淭淮淯淰深淲淳淴淵淶混淸淹淺添淼淽淾淿満溁溂溃溄溅溆溇溈溉溊溋溌溍溎溏源溑溒溓溔溕準溗溘溙溚溛溜溝溞溟溠溡溢溣溤溥溦溧溨溩溪溫溬溭溮溯溰溱溲溳溴溵溶溷溸溹溺溻溼溽溾溿滀滁滂滃滄滅滆滇滈滉滊滋滌滍滎滏滐滑滒滓滔滕滖滗滘滙滚滛滜滝滞滟滠满滢滣滤滥滦滧滨滩滪滫滬滭滮滯滰滱滲滳滴滵滶滷滸滹滺滻滼滽滾滿澀澁澂澃澄澅澆澇澈澉澊澋澌澍澎澏澐澑澒澓澔澕澖澗澘澙澚澛澜澝澞澟澠澡澢澣澤澥澦澧澨澩澪澫澬澭澮澯澰澱澲澳澴澵澶澷澸澹澺澻澼澽澾澿激濁濂濃濄濅濆濇濈濉濊濋濌濍濎濏濐濑濒濓濔濕濖濗濘濙濚濛濜濝濞濟濠濡濢濣濤濥濦濧濨濩濪濫濬濭濮濯濰濱濲濳濴濵濶濷濸濹濺濻濼濽濾濿炀炁炂炃炄炅炆炇炈炉炊炋炌炍炎炏炐炑炒炓炔炕炖炗炘炙炚炛炜炝炞炟炠炡炢炣炤炥炦炧炨炩炪炫炬炭炮炯炰炱炲炳炴炵炶炷炸点為炻炼炽炾炿烀烁烂烃烄烅烆烇烈烉烊烋烌烍烎烏烐烑烒烓烔烕烖烗烘烙烚烛烜烝烞烟烠烡烢烣烤烥烦烧烨烩烪烫烬热烮烯烰烱烲烳烴烵烶烷烸烹烺烻烼烽烾烿熀熁熂熃熄熅熆熇熈熉熊熋熌熍熎熏熐熑熒熓熔熕熖熗熘熙熚熛熜熝熞熟熠熡熢熣熤熥熦熧熨熩熪熫熬熭熮熯熰熱熲熳熴熵熶熷熸熹熺熻熼熽熾熿燀燁燂燃燄燅燆燇燈燉燊燋燌燍燎燏燐燑燒燓燔燕燖燗燘燙燚燛燜燝燞營燠燡燢燣燤燥燦燧燨燩燪燫燬燭燮燯燰燱燲燳燴燵燶燷燸燹燺燻燼燽燾燿犀犁犂犃犄犅犆犇犈犉犊犋犌犍犎犏犐犑犒犓犔犕犖犗犘犙犚犛犜犝犞犟犠犡犢犣犤犥犦犧犨犩犪犫犬犭犮犯犰犱犲犳犴犵状犷犸犹犺犻犼犽犾犿狀狁狂狃狄狅狆狇狈狉狊狋狌狍狎狏狐狑狒狓狔狕狖狗狘狙狚狛狜狝狞狟狠狡狢狣狤狥狦狧狨狩狪狫独狭狮狯狰狱狲狳狴狵狶狷狸狹狺狻狼狽狾狿玀玁玂玃玄玅玆率玈玉玊王玌玍玎玏玐玑玒玓玔玕玖玗玘玙玚玛玜玝玞玟玠玡玢玣玤玥玦玧玨玩玪玫玬玭玮环现玱玲玳玴玵玶玷玸玹玺玻玼玽玾玿珀珁珂珃珄珅珆珇珈珉珊珋珌珍珎珏珐珑珒珓珔珕珖珗珘珙珚珛珜珝珞珟珠珡珢珣珤珥珦珧珨珩珪珫珬班珮珯珰珱珲珳珴珵珶珷珸珹珺珻珼珽現珿璀璁璂璃璄璅璆璇璈璉璊璋璌璍璎璏璐璑璒璓璔璕璖璗璘璙璚璛璜璝璞璟璠璡璢璣璤璥璦璧璨璩璪璫璬璭璮璯環璱璲璳璴璵璶璷璸璹璺璻璼璽璾璿瓀瓁瓂瓃瓄瓅瓆瓇瓈瓉瓊瓋瓌瓍瓎瓏瓐瓑瓒瓓瓔瓕瓖瓗瓘瓙瓚瓛瓜瓝瓞瓟瓠瓡瓢瓣瓤瓥瓦瓧瓨瓩瓪瓫瓬瓭瓮瓯瓰瓱瓲瓳瓴瓵瓶瓷瓸瓹瓺瓻瓼瓽瓾瓿疀疁疂疃疄疅疆疇疈疉疊疋疌疍疎疏疐疑疒疓疔疕疖疗疘疙疚疛疜疝疞疟疠疡疢疣疤疥疦疧疨疩疪疫疬疭疮疯疰疱疲疳疴疵疶疷疸疹疺疻疼疽疾疿痀痁痂痃痄病痆症痈痉痊痋痌痍痎痏痐痑痒痓痔痕痖痗痘痙痚痛痜痝痞痟痠痡痢痣痤痥痦痧痨痩痪痫痬痭痮痯痰痱痲痳痴痵痶痷痸痹痺痻痼痽痾痿皀皁皂皃的皅皆皇皈皉皊皋皌皍皎皏皐皑皒皓皔皕皖皗皘皙皚皛皜皝皞皟皠皡皢皣皤皥皦皧皨皩皪皫皬皭皮皯皰皱皲皳皴皵皶皷皸皹皺皻皼皽皾皿盀盁盂盃盄盅盆盇盈盉益盋盌盍盎盏盐监盒盓盔盕盖盗盘盙盚盛盜盝盞盟盠盡盢監盤盥盦盧盨盩盪盫盬盭目盯盰盱盲盳直盵盶盷相盹盺盻盼盽盾盿瞀瞁瞂瞃瞄瞅瞆瞇瞈瞉瞊瞋瞌瞍瞎瞏瞐瞑瞒瞓瞔瞕瞖瞗瞘瞙瞚瞛瞜瞝瞞瞟瞠瞡瞢瞣瞤瞥瞦瞧瞨瞩瞪瞫瞬瞭瞮瞯瞰瞱瞲瞳瞴瞵瞶瞷瞸瞹瞺瞻瞼瞽瞾瞿矀矁矂矃矄矅矆矇矈矉矊矋矌矍矎矏矐矑矒矓矔矕矖矗矘矙矚矛矜矝矞矟矠矡矢矣矤知矦矧矨矩矪矫矬短矮矯矰矱矲石矴矵矶矷矸矹矺矻矼矽矾矿碀碁碂碃碄碅碆碇碈碉碊碋碌碍碎碏碐碑碒碓碔碕碖碗碘碙碚碛碜碝碞碟碠碡碢碣碤碥碦碧碨碩碪碫碬碭碮碯碰碱碲碳碴碵碶碷碸碹確碻碼碽碾碿磀磁磂磃磄磅磆磇磈磉磊磋磌磍磎磏磐磑磒磓磔磕磖磗磘磙磚磛磜磝磞磟磠磡磢磣磤磥磦磧磨磩磪磫磬磭磮磯磰磱磲磳磴磵磶磷磸磹磺磻磼磽磾磿禀禁禂禃禄禅禆禇禈禉禊禋禌禍禎福禐禑禒禓禔禕禖禗禘禙禚禛禜禝禞禟禠禡禢禣禤禥禦禧禨禩禪禫禬禭禮禯禰禱禲禳禴禵禶禷禸禹禺离禼禽禾禿秀私秂秃秄秅秆秇秈秉秊秋秌种秎秏秐科秒秓秔秕秖秗秘秙秚秛秜秝秞租秠秡秢秣秤秥秦秧秨秩秪秫秬秭秮积称秱秲秳秴秵秶秷秸秹秺移秼秽秾秿窀突窂窃窄窅窆窇窈窉窊窋窌窍窎窏窐窑窒窓窔窕窖窗窘窙窚窛窜窝窞窟窠窡窢窣窤窥窦窧窨窩窪窫窬窭窮窯窰窱窲窳窴窵窶窷窸窹窺窻窼窽窾窿竀竁竂竃竄竅竆竇竈竉竊立竌竍竎竏竐竑竒竓竔竕竖竗竘站竚竛竜竝竞竟章竡竢竣竤童竦竧竨竩竪竫竬竭竮端竰竱竲竳竴竵競竷竸竹竺竻竼竽竾竿简箁箂箃箄箅箆箇箈箉箊箋箌箍箎箏箐箑箒箓箔箕箖算箘箙箚箛箜箝箞箟箠管箢箣箤箥箦箧箨箩箪箫箬箭箮箯箰箱箲箳箴箵箶箷箸箹箺箻箼箽箾箿節篁篂篃範篅篆篇篈築篊篋篌篍篎篏篐篑篒篓篔篕篖篗篘篙篚篛篜篝篞篟篠篡篢篣篤篥篦篧篨篩篪篫篬篭篮篯篰篱篲篳篴篵篶篷篸篹篺篻篼篽篾篿粀粁粂粃粄粅粆粇粈粉粊粋粌粍粎粏粐粑粒粓粔粕粖粗粘粙粚粛粜粝粞粟粠粡粢粣粤粥粦粧粨粩粪粫粬粭粮粯粰粱粲粳粴粵粶粷粸粹粺粻粼粽精粿糀糁糂糃糄糅糆糇糈糉糊糋糌糍糎糏糐糑糒糓糔糕糖糗糘糙糚糛糜糝糞糟糠糡糢糣糤糥糦糧糨糩糪糫糬糭糮糯糰糱糲糳糴糵糶糷糸糹糺系糼糽糾糿綀綁綂綃綄綅綆綇綈綉綊綋綌綍綎綏綐綑綒經綔綕綖綗綘継続綛綜綝綞綟綠綡綢綣綤綥綦綧綨綩綪綫綬維綮綯綰綱網綳綴綵綶綷綸綹綺綻綼綽綾綿緀緁緂緃緄緅緆緇緈緉緊緋緌緍緎総緐緑緒緓緔緕緖緗緘緙線緛緜緝緞緟締緡緢緣緤緥緦緧編緩緪緫緬緭緮緯緰緱緲緳練緵緶緷緸緹緺緻緼緽緾緿纀纁纂纃纄纅纆纇纈纉纊纋續纍纎纏纐纑纒纓纔纕纖纗纘纙纚纛纜纝纞纟纠纡红纣纤纥约级纨纩纪纫纬纭纮纯纰纱纲纳纴纵纶纷纸纹纺纻纼纽纾线绀绁绂练组绅细织终绉绊绋绌绍绎经绐绑绒结绔绕绖绗绘给绚绛络绝绞统绠绡绢绣绤绥绦继绨绩绪绫绬续绮绯绰绱绲绳维绵绶绷绸绹绺绻综绽绾绿羀羁羂羃羄羅羆羇羈羉羊羋羌羍美羏羐羑羒羓羔羕羖羗羘羙羚羛羜羝羞羟羠羡羢羣群羥羦羧羨義羪羫羬羭羮羯羰羱羲羳羴羵羶羷羸羹羺羻羼羽羾羿翀翁翂翃翄翅翆翇翈翉翊翋翌翍翎翏翐翑習翓翔翕翖翗翘翙翚翛翜翝翞翟翠翡翢翣翤翥翦翧翨翩翪翫翬翭翮翯翰翱翲翳翴翵翶翷翸翹翺翻翼翽翾翿肀肁肂肃肄肅肆肇肈肉肊肋肌肍肎肏肐肑肒肓肔肕肖肗肘肙肚肛肜肝肞肟肠股肢肣肤肥肦肧肨肩肪肫肬肭肮肯肰肱育肳肴肵肶肷肸肹肺肻肼肽肾肿胀胁胂胃胄胅胆胇胈胉胊胋背胍胎胏胐胑胒胓胔胕胖胗胘胙胚胛胜胝胞胟胠胡胢胣胤胥胦胧胨胩胪胫胬胭胮胯胰胱胲胳胴胵胶胷胸胹胺胻胼能胾胿膀膁膂膃膄膅膆膇膈膉膊膋膌膍膎膏膐膑膒膓膔膕膖膗膘膙膚膛膜膝膞膟膠膡膢膣膤膥膦膧膨膩膪膫膬膭膮膯膰膱膲膳膴膵膶膷膸膹膺膻膼膽膾膿臀臁臂臃臄臅臆臇臈臉臊臋臌臍臎臏臐臑臒臓臔臕臖臗臘臙臚臛臜臝臞臟臠臡臢臣臤臥臦臧臨臩自臫臬臭臮臯臰臱臲至致臵臶臷臸臹臺臻臼臽臾臿芀芁节芃芄芅芆芇芈芉芊芋芌芍芎芏芐芑芒芓芔芕芖芗芘芙芚芛芜芝芞芟芠芡芢芣芤芥芦芧芨芩芪芫芬芭芮芯芰花芲芳芴芵芶芷芸芹芺芻芼芽芾芿苀苁苂苃苄苅苆苇苈苉苊苋苌苍苎苏苐苑苒苓苔苕苖苗苘苙苚苛苜苝苞苟苠苡苢苣苤若苦苧苨苩苪苫苬苭苮苯苰英苲苳苴苵苶苷苸苹苺苻苼苽苾苿莀莁莂莃莄莅莆莇莈莉莊莋莌莍莎莏莐莑莒莓莔莕莖莗莘莙莚莛莜莝莞莟莠莡莢莣莤莥莦莧莨莩莪莫莬莭莮莯莰莱莲莳莴莵莶获莸莹莺莻莼莽莾莿菀菁菂菃菄菅菆菇菈菉菊菋菌菍菎菏菐菑菒菓菔菕菖菗菘菙菚菛菜菝菞菟菠菡菢菣菤菥菦菧菨菩菪菫菬菭菮華菰菱菲菳菴菵菶菷菸菹菺菻菼菽菾菿蒀蒁蒂蒃蒄蒅蒆蒇蒈蒉蒊蒋蒌蒍蒎蒏蒐蒑蒒蒓蒔蒕蒖蒗蒘蒙蒚蒛蒜蒝蒞蒟蒠蒡蒢蒣蒤蒥蒦蒧蒨蒩蒪蒫蒬蒭蒮蒯蒰蒱蒲蒳蒴蒵蒶蒷蒸蒹蒺蒻蒼蒽蒾蒿蓀蓁蓂蓃蓄蓅蓆蓇蓈蓉蓊蓋蓌蓍蓎蓏蓐蓑蓒蓓蓔蓕蓖蓗蓘蓙蓚蓛蓜蓝蓞蓟蓠蓡蓢蓣蓤蓥蓦蓧蓨蓩蓪蓫蓬蓭蓮蓯蓰蓱蓲蓳蓴蓵蓶蓷蓸蓹蓺蓻蓼蓽蓾蓿薀薁薂薃薄薅薆薇薈薉薊薋薌薍薎薏薐薑薒薓薔薕薖薗薘薙薚薛薜薝薞薟薠薡薢薣薤薥薦薧薨薩薪薫薬薭薮薯薰薱薲薳薴薵薶薷薸薹薺薻薼薽薾薿藀藁藂藃藄藅藆藇藈藉藊藋藌藍藎藏藐藑藒藓藔藕藖藗藘藙藚藛藜藝藞藟藠藡藢藣藤藥藦藧藨藩藪藫藬藭藮藯藰藱藲藳藴藵藶藷藸藹藺藻藼藽藾藿蚀蚁蚂蚃蚄蚅蚆蚇蚈蚉蚊蚋蚌蚍蚎蚏蚐蚑蚒蚓蚔蚕蚖蚗蚘蚙蚚蚛蚜蚝蚞蚟蚠蚡蚢蚣蚤蚥蚦蚧蚨蚩蚪蚫蚬蚭蚮蚯蚰蚱蚲蚳蚴蚵蚶蚷蚸蚹蚺蚻蚼蚽蚾蚿蛀蛁蛂蛃蛄蛅蛆蛇蛈蛉蛊蛋蛌蛍蛎蛏蛐蛑蛒蛓蛔蛕蛖蛗蛘蛙蛚蛛蛜蛝蛞蛟蛠蛡蛢蛣蛤蛥蛦蛧蛨蛩蛪蛫蛬蛭蛮蛯蛰蛱蛲蛳蛴蛵蛶蛷蛸蛹蛺蛻蛼蛽蛾蛿螀螁螂螃螄螅螆螇螈螉螊螋螌融螎螏螐螑螒螓螔螕螖螗螘螙螚螛螜螝螞螟螠螡螢螣螤螥螦螧螨螩螪螫螬螭螮螯螰螱螲螳螴螵螶螷螸螹螺螻螼螽螾螿蟀蟁蟂蟃蟄蟅蟆蟇蟈蟉蟊蟋蟌蟍蟎蟏蟐蟑蟒蟓蟔蟕蟖蟗蟘蟙蟚蟛蟜蟝蟞蟟蟠蟡蟢蟣蟤蟥蟦蟧蟨蟩蟪蟫蟬蟭蟮蟯蟰蟱蟲蟳蟴蟵蟶蟷蟸蟹蟺蟻蟼蟽蟾蟿袀袁袂袃袄袅袆袇袈袉袊袋袌袍袎袏袐袑袒袓袔袕袖袗袘袙袚袛袜袝袞袟袠袡袢袣袤袥袦袧袨袩袪被袬袭袮袯袰袱袲袳袴袵袶袷袸袹袺袻袼袽袾袿裀裁裂裃裄装裆裇裈裉裊裋裌裍裎裏裐裑裒裓裔裕裖裗裘裙裚裛補裝裞裟裠裡裢裣裤裥裦裧裨裩裪裫裬裭裮裯裰裱裲裳裴裵裶裷裸裹裺裻裼製裾裿覀要覂覃覄覅覆覇覈覉覊見覌覍覎規覐覑覒覓覔覕視覗覘覙覚覛覜覝覞覟覠覡覢覣覤覥覦覧覨覩親覫覬覭覮覯覰覱覲観覴覵覶覷覸覹覺覻覼覽覾覿觀见观觃规觅视觇览觉觊觋觌觍觎觏觐觑角觓觔觕觖觗觘觙觚觛觜觝觞觟觠觡觢解觤觥触觧觨觩觪觫觬觭觮觯觰觱觲觳觴觵觶觷觸觹觺觻觼觽觾觿誀誁誂誃誄誅誆誇誈誉誊誋誌認誎誏誐誑誒誓誔誕誖誗誘誙誚誛誜誝語誟誠誡誢誣誤誥誦誧誨誩說誫説読誮誯誰誱課誳誴誵誶誷誸誹誺誻誼誽誾調諀諁諂諃諄諅諆談諈諉諊請諌諍諎諏諐諑諒諓諔諕論諗諘諙諚諛諜諝諞諟諠諡諢諣諤諥諦諧諨諩諪諫諬諭諮諯諰諱諲諳諴諵諶諷諸諹諺諻諼諽諾諿讀讁讂讃讄讅讆讇讈讉變讋讌讍讎讏讐讑讒讓讔讕讖讗讘讙讚讛讜讝讞讟讠计订讣认讥讦讧讨让讪讫讬训议讯记讱讲讳讴讵讶讷许讹论讻讼讽设访诀证诂诃评诅识诇诈诉诊诋诌词诎诏诐译诒诓诔试诖诗诘诙诚诛诜话诞诟诠诡询诣诤该详诧诨诩诪诫诬语诮误诰诱诲诳说诵诶请诸诹诺读诼诽课诿貀貁貂貃貄貅貆貇貈貉貊貋貌貍貎貏貐貑貒貓貔貕貖貗貘貙貚貛貜貝貞貟負財貢貣貤貥貦貧貨販貪貫責貭貮貯貰貱貲貳貴貵貶買貸貹貺費貼貽貾貿賀賁賂賃賄賅賆資賈賉賊賋賌賍賎賏賐賑賒賓賔賕賖賗賘賙賚賛賜賝賞賟賠賡賢賣賤賥賦賧賨賩質賫賬賭賮賯賰賱賲賳賴賵賶賷賸賹賺賻購賽賾賿趀趁趂趃趄超趆趇趈趉越趋趌趍趎趏趐趑趒趓趔趕趖趗趘趙趚趛趜趝趞趟趠趡趢趣趤趥趦趧趨趩趪趫趬趭趮趯趰趱趲足趴趵趶趷趸趹趺趻趼趽趾趿跀跁跂跃跄跅跆跇跈跉跊跋跌跍跎跏跐跑跒跓跔跕跖跗跘跙跚跛跜距跞跟跠跡跢跣跤跥跦跧跨跩跪跫跬跭跮路跰跱跲跳跴践跶跷跸跹跺跻跼跽跾跿躀躁躂躃躄躅躆躇躈躉躊躋躌躍躎躏躐躑躒躓躔躕躖躗躘躙躚躛躜躝躞躟躠躡躢躣躤躥躦躧躨躩躪身躬躭躮躯躰躱躲躳躴躵躶躷躸躹躺躻躼躽躾躿軀軁軂軃軄軅軆軇軈軉車軋軌軍軎軏軐軑軒軓軔軕軖軗軘軙軚軛軜軝軞軟軠軡転軣軤軥軦軧軨軩軪軫軬軭軮軯軰軱軲軳軴軵軶軷軸軹軺軻軼軽軾軿辀辁辂较辄辅辆辇辈辉辊辋辌辍辎辏辐辑辒输辔辕辖辗辘辙辚辛辜辝辞辟辠辡辢辣辤辥辦辧辨辩辪辫辬辭辮辯辰辱農辳辴辵辶辷辸边辺辻込辽达辿迀迁迂迃迄迅迆过迈迉迊迋迌迍迎迏运近迒迓返迕迖迗还这迚进远违连迟迠迡迢迣迤迥迦迧迨迩迪迫迬迭迮迯述迱迲迳迴迵迶迷迸迹迺迻迼追迾迿邀邁邂邃還邅邆邇邈邉邊邋邌邍邎邏邐邑邒邓邔邕邖邗邘邙邚邛邜邝邞邟邠邡邢那邤邥邦邧邨邩邪邫邬邭邮邯邰邱邲邳邴邵邶邷邸邹邺邻邼邽邾邿郀郁郂郃郄郅郆郇郈郉郊郋郌郍郎郏郐郑郒郓郔郕郖郗郘郙郚郛郜郝郞郟郠郡郢郣郤郥郦郧部郩郪郫郬郭郮郯郰郱郲郳郴郵郶郷郸郹郺郻郼都郾郿醀醁醂醃醄醅醆醇醈醉醊醋醌醍醎醏醐醑醒醓醔醕醖醗醘醙醚醛醜醝醞醟醠醡醢醣醤醥醦醧醨醩醪醫醬醭醮醯醰醱醲醳醴醵醶醷醸醹醺醻醼醽醾醿釀釁釂釃釄釅釆采釈釉释釋里重野量釐金釒釓釔釕釖釗釘釙釚釛釜針釞釟釠釡釢釣釤釥釦釧釨釩釪釫釬釭釮釯釰釱釲釳釴釵釶釷釸釹釺釻釼釽釾釿銀銁銂銃銄銅銆銇銈銉銊銋銌銍銎銏銐銑銒銓銔銕銖銗銘銙銚銛銜銝銞銟銠銡銢銣銤銥銦銧銨銩銪銫銬銭銮銯銰銱銲銳銴銵銶銷銸銹銺銻銼銽銾銿鋀鋁鋂鋃鋄鋅鋆鋇鋈鋉鋊鋋鋌鋍鋎鋏鋐鋑鋒鋓鋔鋕鋖鋗鋘鋙鋚鋛鋜鋝鋞鋟鋠鋡鋢鋣鋤鋥鋦鋧鋨鋩鋪鋫鋬鋭鋮鋯鋰鋱鋲鋳鋴鋵鋶鋷鋸鋹鋺鋻鋼鋽鋾鋿鎀鎁鎂鎃鎄鎅鎆鎇鎈鎉鎊鎋鎌鎍鎎鎏鎐鎑鎒鎓鎔鎕鎖鎗鎘鎙鎚鎛鎜鎝鎞鎟鎠鎡鎢鎣鎤鎥鎦鎧鎨鎩鎪鎫鎬鎭鎮鎯鎰鎱鎲鎳鎴鎵鎶鎷鎸鎹鎺鎻鎼鎽鎾鎿鏀鏁鏂鏃鏄鏅鏆鏇鏈鏉鏊鏋鏌鏍鏎鏏鏐鏑鏒鏓鏔鏕鏖鏗鏘鏙鏚鏛鏜鏝鏞鏟鏠鏡鏢鏣鏤鏥鏦鏧鏨鏩鏪鏫鏬鏭鏮鏯鏰鏱鏲鏳鏴鏵鏶鏷鏸鏹鏺鏻鏼鏽鏾鏿钀钁钂钃钄钅钆钇针钉钊钋钌钍钎钏钐钑钒钓钔钕钖钗钘钙钚钛钜钝钞钟钠钡钢钣钤钥钦钧钨钩钪钫钬钭钮钯钰钱钲钳钴钵钶钷钸钹钺钻钼钽钾钿铀铁铂铃铄铅铆铇铈铉铊铋铌铍铎铏铐铑铒铓铔铕铖铗铘铙铚铛铜铝铞铟铠铡铢铣铤铥铦铧铨铩铪铫铬铭铮铯铰铱铲铳铴铵银铷铸铹铺铻铼铽链铿門閁閂閃閄閅閆閇閈閉閊開閌閍閎閏閐閑閒間閔閕閖閗閘閙閚閛閜閝閞閟閠閡関閣閤閥閦閧閨閩閪閫閬閭閮閯閰閱閲閳閴閵閶閷閸閹閺閻閼閽閾閿闀闁闂闃闄闅闆闇闈闉闊闋闌闍闎闏闐闑闒闓闔闕闖闗闘闙闚闛關闝闞闟闠闡闢闣闤闥闦闧门闩闪闫闬闭问闯闰闱闲闳间闵闶闷闸闹闺闻闼闽闾闿隀隁隂隃隄隅隆隇隈隉隊隋隌隍階随隐隑隒隓隔隕隖隗隘隙隚際障隝隞隟隠隡隢隣隤隥隦隧隨隩險隫隬隭隮隯隰隱隲隳隴隵隶隷隸隹隺隻隼隽难隿雀雁雂雃雄雅集雇雈雉雊雋雌雍雎雏雐雑雒雓雔雕雖雗雘雙雚雛雜雝雞雟雠雡離難雤雥雦雧雨雩雪雫雬雭雮雯雰雱雲雳雴雵零雷雸雹雺電雼雽雾雿鞀鞁鞂鞃鞄鞅鞆鞇鞈鞉鞊鞋鞌鞍鞎鞏鞐鞑鞒鞓鞔鞕鞖鞗鞘鞙鞚鞛鞜鞝鞞鞟鞠鞡鞢鞣鞤鞥鞦鞧鞨鞩鞪鞫鞬鞭鞮鞯鞰鞱鞲鞳鞴鞵鞶鞷鞸鞹鞺鞻鞼鞽鞾鞿韀韁韂韃韄韅韆韇韈韉韊韋韌韍韎韏韐韑韒韓韔韕韖韗韘韙韚韛韜韝韞韟韠韡韢韣韤韥韦韧韨韩韪韫韬韭韮韯韰韱韲音韴韵韶韷韸韹韺韻韼韽韾響颀颁颂颃预颅领颇颈颉颊颋颌颍颎颏颐频颒颓颔颕颖颗题颙颚颛颜额颞颟颠颡颢颣颤颥颦颧風颩颪颫颬颭颮颯颰颱颲颳颴颵颶颷颸颹颺颻颼颽颾颿飀飁飂飃飄飅飆飇飈飉飊飋飌飍风飏飐飑飒飓飔飕飖飗飘飙飚飛飜飝飞食飠飡飢飣飤飥飦飧飨飩飪飫飬飭飮飯飰飱飲飳飴飵飶飷飸飹飺飻飼飽飾飿馀馁馂馃馄馅馆馇馈馉馊馋馌馍馎馏馐馑馒馓馔馕首馗馘香馚馛馜馝馞馟馠馡馢馣馤馥馦馧馨馩馪馫馬馭馮馯馰馱馲馳馴馵馶馷馸馹馺馻馼馽馾馿駀駁駂駃駄駅駆駇駈駉駊駋駌駍駎駏駐駑駒駓駔駕駖駗駘駙駚駛駜駝駞駟駠駡駢駣駤駥駦駧駨駩駪駫駬駭駮駯駰駱駲駳駴駵駶駷駸駹駺駻駼駽駾駿骀骁骂骃骄骅骆骇骈骉骊骋验骍骎骏骐骑骒骓骔骕骖骗骘骙骚骛骜骝骞骟骠骡骢骣骤骥骦骧骨骩骪骫骬骭骮骯骰骱骲骳骴骵骶骷骸骹骺骻骼骽骾骿髀髁髂髃髄髅髆髇髈髉髊髋髌髍髎髏髐髑髒髓體髕髖髗高髙髚髛髜髝髞髟髠髡髢髣髤髥髦髧髨髩髪髫髬髭髮髯髰髱髲髳髴髵髶髷髸髹髺髻髼髽髾髿鮀鮁鮂鮃鮄鮅鮆鮇鮈鮉鮊鮋鮌鮍鮎鮏鮐鮑鮒鮓鮔鮕鮖鮗鮘鮙鮚鮛鮜鮝鮞鮟鮠鮡鮢鮣鮤鮥鮦鮧鮨鮩鮪鮫鮬鮭鮮鮯鮰鮱鮲鮳鮴鮵鮶鮷鮸鮹鮺鮻鮼鮽鮾鮿鯀鯁鯂鯃鯄鯅鯆鯇鯈鯉鯊鯋鯌鯍鯎鯏鯐鯑鯒鯓鯔鯕鯖鯗鯘鯙鯚鯛鯜鯝鯞鯟鯠鯡鯢鯣鯤鯥鯦鯧鯨鯩鯪鯫鯬鯭鯮鯯鯰鯱鯲鯳鯴鯵鯶鯷鯸鯹鯺鯻鯼鯽鯾鯿鲀鲁鲂鲃鲄鲅鲆鲇鲈鲉鲊鲋鲌鲍鲎鲏鲐鲑鲒鲓鲔鲕鲖鲗鲘鲙鲚鲛鲜鲝鲞鲟鲠鲡鲢鲣鲤鲥鲦鲧鲨鲩鲪鲫鲬鲭鲮鲯鲰鲱鲲鲳鲴鲵鲶鲷鲸鲹鲺鲻鲼鲽鲾鲿鳀鳁鳂鳃鳄鳅鳆鳇鳈鳉鳊鳋鳌鳍鳎鳏鳐鳑鳒鳓鳔鳕鳖鳗鳘鳙鳚鳛鳜鳝鳞鳟鳠鳡鳢鳣鳤鳥鳦鳧鳨鳩鳪鳫鳬鳭鳮鳯鳰鳱鳲鳳鳴鳵鳶鳷鳸鳹鳺鳻鳼鳽鳾鳿鶀鶁鶂鶃鶄鶅鶆鶇鶈鶉鶊鶋鶌鶍鶎鶏鶐鶑鶒鶓鶔鶕鶖鶗鶘鶙鶚鶛鶜鶝鶞鶟鶠鶡鶢鶣鶤鶥鶦鶧鶨鶩鶪鶫鶬鶭鶮鶯鶰鶱鶲鶳鶴鶵鶶鶷鶸鶹鶺鶻鶼鶽鶾鶿鷀鷁鷂鷃鷄鷅鷆鷇鷈鷉鷊鷋鷌鷍鷎鷏鷐鷑鷒鷓鷔鷕鷖鷗鷘鷙鷚鷛鷜鷝鷞鷟鷠鷡鷢鷣鷤鷥鷦鷧鷨鷩鷪鷫鷬鷭鷮鷯鷰鷱鷲鷳鷴鷵鷶鷷鷸鷹鷺鷻鷼鷽鷾鷿麀麁麂麃麄麅麆麇麈麉麊麋麌麍麎麏麐麑麒麓麔麕麖麗麘麙麚麛麜麝麞麟麠麡麢麣麤麥麦麧麨麩麪麫麬麭麮麯麰麱麲麳麴麵麶麷麸麹麺麻麼麽麾麿黀黁黂黃黄黅黆黇黈黉黊黋黌黍黎黏黐黑黒黓黔黕黖黗默黙黚黛黜黝點黟黠黡黢黣黤黥黦黧黨黩黪黫黬黭黮黯黰黱黲黳黴黵黶黷黸黹黺黻黼黽黾黿龀龁龂龃龄龅龆龇龈龉龊龋龌龍龎龏龐龑龒龓龔龕龖龗龘龙龚龛龜龝龞龟龠龡龢龣龤龥龦龧龨龩龪龫龬龭龮龯龰龱龲龳龴龵龶龷龸龹龺龻龼龽龾龿鿀鿁鿂鿃鿄鿅鿆鿇鿈鿉鿊鿋鿌鿍鿎鿏鿐鿑鿒鿓鿔鿕鿖鿗鿘鿙鿚鿛鿜鿝鿞鿟鿠鿡鿢鿣鿤鿥鿦鿧鿨鿩鿪鿫鿬鿭鿮鿯鿰鿱鿲鿳鿴鿵鿶鿷鿸鿹鿺鿻鿼鿽鿾鿿ꂀꂁꂂꂃꂄꂅꂆꂇꂈꂉꂊꂋꂌꂍꂎꂏꂐꂑꂒꂓꂔꂕꂖꂗꂘꂙꂚꂛꂜꂝꂞꂟꂠꂡꂢꂣꂤꂥꂦꂧꂨꂩꂪꂫꂬꂭꂮꂯꂰꂱꂲꂳꂴꂵꂶꂷꂸꂹꂺꂻꂼꂽꂾꂿꃀꃁꃂꃃꃄꃅꃆꃇꃈꃉꃊꃋꃌꃍꃎꃏꃐꃑꃒꃓꃔꃕꃖꃗꃘꃙꃚꃛꃜꃝꃞꃟꃠꃡꃢꃣꃤꃥꃦꃧꃨꃩꃪꃫꃬꃭꃮꃯꃰꃱꃲꃳꃴꃵꃶꃷꃸꃹꃺꃻꃼꃽꃾꃿꆀꆁꆂꆃꆄꆅꆆꆇꆈꆉꆊꆋꆌꆍꆎꆏꆐꆑꆒꆓꆔꆕꆖꆗꆘꆙꆚꆛꆜꆝꆞꆟꆠꆡꆢꆣꆤꆥꆦꆧꆨꆩꆪꆫꆬꆭꆮꆯꆰꆱꆲꆳꆴꆵꆶꆷꆸꆹꆺꆻꆼꆽꆾꆿꇀꇁꇂꇃꇄꇅꇆꇇꇈꇉꇊꇋꇌꇍꇎꇏꇐꇑꇒꇓꇔꇕꇖꇗꇘꇙꇚꇛꇜꇝꇞꇟꇠꇡꇢꇣꇤꇥꇦꇧꇨꇩꇪꇫꇬꇭꇮꇯꇰꇱꇲꇳꇴꇵꇶꇷꇸꇹꇺꇻꇼꇽꇾꇿꊀꊁꊂꊃꊄꊅꊆꊇꊈꊉꊊꊋꊌꊍꊎꊏꊐꊑꊒꊓꊔꊕꊖꊗꊘꊙꊚꊛꊜꊝꊞꊟꊠꊡꊢꊣꊤꊥꊦꊧꊨꊩꊪꊫꊬꊭꊮꊯꊰꊱꊲꊳꊴꊵꊶꊷꊸꊹꊺꊻꊼꊽꊾꊿꋀꋁꋂꋃꋄꋅꋆꋇꋈꋉꋊꋋꋌꋍꋎꋏꋐꋑꋒꋓꋔꋕꋖꋗꋘꋙꋚꋛꋜꋝꋞꋟꋠꋡꋢꋣꋤꋥꋦꋧꋨꋩꋪꋫꋬꋭꋮꋯꋰꋱꋲꋳꋴꋵꋶꋷꋸꋹꋺꋻꋼꋽꋾꋿꎀꎁꎂꎃꎄꎅꎆꎇꎈꎉꎊꎋꎌꎍꎎꎏꎐꎑꎒꎓꎔꎕꎖꎗꎘꎙꎚꎛꎜꎝꎞꎟꎠꎡꎢꎣꎤꎥꎦꎧꎨꎩꎪꎫꎬꎭꎮꎯꎰꎱꎲꎳꎴꎵꎶꎷꎸꎹꎺꎻꎼꎽꎾꎿꏀꏁꏂꏃꏄꏅꏆꏇꏈꏉꏊꏋꏌꏍꏎꏏꏐꏑꏒꏓꏔꏕꏖꏗꏘꏙꏚꏛꏜꏝꏞꏟꏠꏡꏢꏣꏤꏥꏦꏧꏨꏩꏪꏫꏬꏭꏮꏯꏰꏱꏲꏳꏴꏵꏶꏷꏸꏹꏺꏻꏼꏽꏾꏿꒀꒁꒂꒃꒄꒅꒆꒇꒈꒉꒊꒋꒌꓐꓑꓒꓓꓔꓕꓖꓗꓘꓙꓚꓛꓜꓝꓞꓟꓠꓡꓢꓣꓤꓥꓦꓧꓨꓩꓪꓫꓬꓭꓮꓯꓰꓱꓲꓳꓴꓵꓶꓷꓸꓹꓺꓻꓼꓽꖀꖁꖂꖃꖄꖅꖆꖇꖈꖉꖊꖋꖌꖍꖎꖏꖐꖑꖒꖓꖔꖕꖖꖗꖘꖙꖚꖛꖜꖝꖞꖟꖠꖡꖢꖣꖤꖥꖦꖧꖨꖩꖪꖫꖬꖭꖮꖯꖰꖱꖲꖳꖴꖵꖶꖷꖸꖹꖺꖻꖼꖽꖾꖿꗀꗁꗂꗃꗄꗅꗆꗇꗈꗉꗊꗋꗌꗍꗎꗏꗐꗑꗒꗓꗔꗕꗖꗗꗘꗙꗚꗛꗜꗝꗞꗟꗠꗡꗢꗣꗤꗥꗦꗧꗨꗩꗪꗫꗬꗭꗮꗯꗰꗱꗲꗳꗴꗵꗶꗷꗸꗹꗺꗻꗼꗽꗾꗿꚀꚁꚂꚃꚄꚅꚆꚇꚈꚉꚊꚋꚌꚍꚎꚏꚐꚑꚒꚓꚔꚕꚖꚗꚘꚙꚚꚛꚜꚝꚠꚡꚢꚣꚤꚥꚦꚧꚨꚩꚪꚫꚬꚭꚮꚯꚰꚱꚲꚳꚴꚵꚶꚷꚸꚹꚺꚻꚼꚽꚾꚿꛀꛁꛂꛃꛄꛅꛆꛇꛈꛉꛊꛋꛌꛍꛎꛏꛐꛑꛒꛓꛔꛕꛖꛗꛘꛙꛚꛛꛜꛝꛞꛟꛠꛡꛢꛣꛤꛥꛦꛧꛨꛩꛪꛫꛬꛭꛮꛯꞀꞁꞂꞃꞄꞅꞆꞇꞈꞋꞌꞍꞎꞏꞐꞑꞒꞓꞔꞕꞖꞗꞘꞙꞚꞛꞜꞝꞞꞟꞠꞡꞢꞣꞤꞥꞦꞧꞨꞩꞪꞫꞬꞭꞮꞯꞰꞱꞲꞳꞴꞵꞶꞷꞸꞹꞺꞻꞼꞽꞾꞿꟀꟁꟂꟃꟄꟅꟆꟇꟈꟉꟊꟐꟑꟓꟕꟖꟗꟘꟙꟲꟳꟴꟵꟶꟷꟸꟹꟺꟻꟼꟽꟾꟿꢂꢃꢄꢅꢆꢇꢈꢉꢊꢋꢌꢍꢎꢏꢐꢑꢒꢓꢔꢕꢖꢗꢘꢙꢚꢛꢜꢝꢞꢟꢠꢡꢢꢣꢤꢥꢦꢧꢨꢩꢪꢫꢬꢭꢮꢯꢰꢱꢲꢳ꣐꣑꣒꣓꣔꣕꣖꣗꣘꣙ꣲꣳꣴꣵꣶꣷꣻꣽꣾꦄꦅꦆꦇꦈꦉꦊꦋꦌꦍꦎꦏꦐꦑꦒꦓꦔꦕꦖꦗꦘꦙꦚꦛꦜꦝꦞꦟꦠꦡꦢꦣꦤꦥꦦꦧꦨꦩꦪꦫꦬꦭꦮꦯꦰꦱꦲꧏ꧐꧑꧒꧓꧔꧕꧖꧗꧘꧙ꧠꧡꧢꧣꧤꧦꧧꧨꧩꧪꧫꧬꧭꧮꧯ꧰꧱꧲꧳꧴꧵꧶꧷꧸꧹ꧺꧻꧼꧽꧾꪀꪁꪂꪃꪄꪅꪆꪇꪈꪉꪊꪋꪌꪍꪎꪏꪐꪑꪒꪓꪔꪕꪖꪗꪘꪙꪚꪛꪜꪝꪞꪟꪠꪡꪢꪣꪤꪥꪦꪧꪨꪩꪪꪫꪬꪭꪮꪯꪱꪵꪶꪹꪺꪻꪼꪽꫀꫂꫛꫜꫝꫠꫡꫢꫣꫤꫥꫦꫧꫨꫩꫪꫲꫳꫴꮀꮁꮂꮃꮄꮅꮆꮇꮈꮉꮊꮋꮌꮍꮎꮏꮐꮑꮒꮓꮔꮕꮖꮗꮘꮙꮚꮛꮜꮝꮞꮟꮠꮡꮢꮣꮤꮥꮦꮧꮨꮩꮪꮫꮬꮭꮮꮯꮰꮱꮲꮳꮴꮵꮶꮷꮸꮹꮺꮻꮼꮽꮾꮿꯀꯁꯂꯃꯄꯅꯆꯇꯈꯉꯊꯋꯌꯍꯎꯏꯐꯑꯒꯓꯔꯕꯖꯗꯘꯙꯚꯛꯜꯝꯞꯟꯠꯡꯢ꯰꯱꯲꯳꯴꯵꯶꯷꯸꯹검겁겂것겄겅겆겇겈겉겊겋게겍겎겏겐겑겒겓겔겕겖겗겘겙겚겛겜겝겞겟겠겡겢겣겤겥겦겧겨격겪겫견겭겮겯결겱겲겳겴겵겶겷겸겹겺겻겼경겾겿곀곁곂곃계곅곆곇곈곉곊곋곌곍곎곏곐곑곒곓곔곕곖곗곘곙곚곛곜곝곞곟고곡곢곣곤곥곦곧골곩곪곫곬곭곮곯곰곱곲곳곴공곶곷곸곹곺곻과곽곾곿궀궁궂궃궄궅궆궇궈궉궊궋권궍궎궏궐궑궒궓궔궕궖궗궘궙궚궛궜궝궞궟궠궡궢궣궤궥궦궧궨궩궪궫궬궭궮궯궰궱궲궳궴궵궶궷궸궹궺궻궼궽궾궿귀귁귂귃귄귅귆귇귈귉귊귋귌귍귎귏귐귑귒귓귔귕귖귗귘귙귚귛규귝귞귟균귡귢귣귤귥귦귧귨귩귪귫귬귭귮귯귰귱귲귳귴귵귶귷그극귺귻근귽귾귿꺀꺁꺂꺃꺄꺅꺆꺇꺈꺉꺊꺋꺌꺍꺎꺏꺐꺑꺒꺓꺔꺕꺖꺗꺘꺙꺚꺛꺜꺝꺞꺟꺠꺡꺢꺣꺤꺥꺦꺧꺨꺩꺪꺫꺬꺭꺮꺯꺰꺱꺲꺳꺴꺵꺶꺷꺸꺹꺺꺻꺼꺽꺾꺿껀껁껂껃껄껅껆껇껈껉껊껋껌껍껎껏껐껑껒껓껔껕껖껗께껙껚껛껜껝껞껟껠껡껢껣껤껥껦껧껨껩껪껫껬껭껮껯껰껱껲껳껴껵껶껷껸껹껺껻껼껽껾껿꾀꾁꾂꾃꾄꾅꾆꾇꾈꾉꾊꾋꾌꾍꾎꾏꾐꾑꾒꾓꾔꾕꾖꾗꾘꾙꾚꾛꾜꾝꾞꾟꾠꾡꾢꾣꾤꾥꾦꾧꾨꾩꾪꾫꾬꾭꾮꾯꾰꾱꾲꾳꾴꾵꾶꾷꾸꾹꾺꾻꾼꾽꾾꾿꿀꿁꿂꿃꿄꿅꿆꿇꿈꿉꿊꿋꿌꿍꿎꿏꿐꿑꿒꿓꿔꿕꿖꿗꿘꿙꿚꿛꿜꿝꿞꿟꿠꿡꿢꿣꿤꿥꿦꿧꿨꿩꿪꿫꿬꿭꿮꿯꿰꿱꿲꿳꿴꿵꿶꿷꿸꿹꿺꿻꿼꿽꿾꿿낀낁낂낃낄낅낆낇낈낉낊낋낌낍낎낏낐낑낒낓낔낕낖낗나낙낚낛난낝낞낟날낡낢낣낤낥낦낧남납낪낫났낭낮낯낰낱낲낳내낵낶낷낸낹낺낻낼낽낾낿냀냁냂냃냄냅냆냇냈냉냊냋냌냍냎냏냐냑냒냓냔냕냖냗냘냙냚냛냜냝냞냟냠냡냢냣냤냥냦냧냨냩냪냫냬냭냮냯냰냱냲냳냴냵냶냷냸냹냺냻냼냽냾냿놀놁놂놃놄놅놆놇놈놉놊놋놌농놎놏놐놑높놓놔놕놖놗놘놙놚놛놜놝놞놟놠놡놢놣놤놥놦놧놨놩놪놫놬놭놮놯놰놱놲놳놴놵놶놷놸놹놺놻놼놽놾놿뇀뇁뇂뇃뇄뇅뇆뇇뇈뇉뇊뇋뇌뇍뇎뇏뇐뇑뇒뇓뇔뇕뇖뇗뇘뇙뇚뇛뇜뇝뇞뇟뇠뇡뇢뇣뇤뇥뇦뇧뇨뇩뇪뇫뇬뇭뇮뇯뇰뇱뇲뇳뇴뇵뇶뇷뇸뇹뇺뇻뇼뇽뇾뇿늀늁늂늃늄늅늆늇늈늉늊늋늌늍늎늏느늑늒늓는늕늖늗늘늙늚늛늜늝늞늟늠늡늢늣늤능늦늧늨늩늪늫늬늭늮늯늰늱늲늳늴늵늶늷늸늹늺늻늼늽늾늿닀닁닂닃닄닅닆닇니닉닊닋닌닍닎닏닐닑닒닓닔닕닖닗님닙닚닛닜닝닞닟닠닡닢닣다닥닦닧단닩닪닫달닭닮닯닰닱닲닳담답닶닷닸당닺닻닼닽닾닿뎀뎁뎂뎃뎄뎅뎆뎇뎈뎉뎊뎋뎌뎍뎎뎏뎐뎑뎒뎓뎔뎕뎖뎗뎘뎙뎚뎛뎜뎝뎞뎟뎠뎡뎢뎣뎤뎥뎦뎧뎨뎩뎪뎫뎬뎭뎮뎯뎰뎱뎲뎳뎴뎵뎶뎷뎸뎹뎺뎻뎼뎽뎾뎿돀돁돂돃도독돆돇돈돉돊돋돌돍돎돏돐돑돒돓돔돕돖돗돘동돚돛돜돝돞돟돠돡돢돣돤돥돦돧돨돩돪돫돬돭돮돯돰돱돲돳돴돵돶돷돸돹돺돻돼돽돾돿뒀뒁뒂뒃뒄뒅뒆뒇뒈뒉뒊뒋뒌뒍뒎뒏뒐뒑뒒뒓뒔뒕뒖뒗뒘뒙뒚뒛뒜뒝뒞뒟뒠뒡뒢뒣뒤뒥뒦뒧뒨뒩뒪뒫뒬뒭뒮뒯뒰뒱뒲뒳뒴뒵뒶뒷뒸뒹뒺뒻뒼뒽뒾뒿듀듁듂듃듄듅듆듇듈듉듊듋듌듍듎듏듐듑듒듓듔듕듖듗듘듙듚듛드득듞듟든듡듢듣들듥듦듧듨듩듪듫듬듭듮듯듰등듲듳듴듵듶듷듸듹듺듻듼듽듾듿떀떁떂떃떄떅떆떇떈떉떊떋떌떍떎떏떐떑떒떓떔떕떖떗떘떙떚떛떜떝떞떟떠떡떢떣떤떥떦떧떨떩떪떫떬떭떮떯떰떱떲떳떴떵떶떷떸떹떺떻떼떽떾떿뗀뗁뗂뗃뗄뗅뗆뗇뗈뗉뗊뗋뗌뗍뗎뗏뗐뗑뗒뗓뗔뗕뗖뗗뗘뗙뗚뗛뗜뗝뗞뗟뗠뗡뗢뗣뗤뗥뗦뗧뗨뗩뗪뗫뗬뗭뗮뗯뗰뗱뗲뗳뗴뗵뗶뗷뗸뗹뗺뗻뗼뗽뗾뗿뚀뚁뚂뚃뚄뚅뚆뚇뚈뚉뚊뚋뚌뚍뚎뚏뚐뚑뚒뚓뚔뚕뚖뚗뚘뚙뚚뚛뚜뚝뚞뚟뚠뚡뚢뚣뚤뚥뚦뚧뚨뚩뚪뚫뚬뚭뚮뚯뚰뚱뚲뚳뚴뚵뚶뚷뚸뚹뚺뚻뚼뚽뚾뚿뛀뛁뛂뛃뛄뛅뛆뛇뛈뛉뛊뛋뛌뛍뛎뛏뛐뛑뛒뛓뛔뛕뛖뛗뛘뛙뛚뛛뛜뛝뛞뛟뛠뛡뛢뛣뛤뛥뛦뛧뛨뛩뛪뛫뛬뛭뛮뛯뛰뛱뛲뛳뛴뛵뛶뛷뛸뛹뛺뛻뛼뛽뛾뛿란랁랂랃랄랅랆랇랈랉랊랋람랍랎랏랐랑랒랓랔랕랖랗래랙랚랛랜랝랞랟랠랡랢랣랤랥랦랧램랩랪랫랬랭랮랯랰랱랲랳랴략랶랷랸랹랺랻랼랽랾랿럀럁럂럃럄럅럆럇럈량럊럋럌럍럎럏럐럑럒럓럔럕럖럗럘럙럚럛럜럝럞럟럠럡럢럣럤럥럦럧럨럩럪럫러럭럮럯런럱럲럳럴럵럶럷럸럹럺럻럼럽럾럿뢀뢁뢂뢃뢄뢅뢆뢇뢈뢉뢊뢋뢌뢍뢎뢏뢐뢑뢒뢓뢔뢕뢖뢗뢘뢙뢚뢛뢜뢝뢞뢟뢠뢡뢢뢣뢤뢥뢦뢧뢨뢩뢪뢫뢬뢭뢮뢯뢰뢱뢲뢳뢴뢵뢶뢷뢸뢹뢺뢻뢼뢽뢾뢿룀룁룂룃룄룅룆룇룈룉룊룋료룍룎룏룐룑룒룓룔룕룖룗룘룙룚룛룜룝룞룟룠룡룢룣룤룥룦룧루룩룪룫룬룭룮룯룰룱룲룳룴룵룶룷룸룹룺룻룼룽룾룿릀릁릂릃름릅릆릇릈릉릊릋릌릍릎릏릐릑릒릓릔릕릖릗릘릙릚릛릜릝릞릟릠릡릢릣릤릥릦릧릨릩릪릫리릭릮릯린릱릲릳릴릵릶릷릸릹릺릻림립릾릿맀링맂맃맄맅맆맇마막맊맋만맍많맏말맑맒맓맔맕맖맗맘맙맚맛맜망맞맟맠맡맢맣매맥맦맧맨맩맪맫맬맭맮맯맰맱맲맳맴맵맶맷맸맹맺맻맼맽맾맿몀몁몂몃몄명몆몇몈몉몊몋몌몍몎몏몐몑몒몓몔몕몖몗몘몙몚몛몜몝몞몟몠몡몢몣몤몥몦몧모목몪몫몬몭몮몯몰몱몲몳몴몵몶몷몸몹몺못몼몽몾몿뫀뫁뫂뫃뫄뫅뫆뫇뫈뫉뫊뫋뫌뫍뫎뫏뫐뫑뫒뫓뫔뫕뫖뫗뫘뫙뫚뫛뫜뫝뫞뫟뫠뫡뫢뫣뫤뫥뫦뫧뫨뫩뫪뫫뫬뫭뫮뫯뫰뫱뫲뫳뫴뫵뫶뫷뫸뫹뫺뫻뫼뫽뫾뫿뮀뮁뮂뮃뮄뮅뮆뮇뮈뮉뮊뮋뮌뮍뮎뮏뮐뮑뮒뮓뮔뮕뮖뮗뮘뮙뮚뮛뮜뮝뮞뮟뮠뮡뮢뮣뮤뮥뮦뮧뮨뮩뮪뮫뮬뮭뮮뮯뮰뮱뮲뮳뮴뮵뮶뮷뮸뮹뮺뮻뮼뮽뮾뮿므믁믂믃믄믅믆믇믈믉믊믋믌믍믎믏믐믑믒믓믔믕믖믗믘믙믚믛믜믝믞믟믠믡믢믣믤믥믦믧믨믩믪믫믬믭믮믯믰믱믲믳믴믵믶믷미믹믺믻민믽믾믿벀벁벂벃버벅벆벇번벉벊벋벌벍벎벏벐벑벒벓범법벖벗벘벙벚벛벜벝벞벟베벡벢벣벤벥벦벧벨벩벪벫벬벭벮벯벰벱벲벳벴벵벶벷벸벹벺벻벼벽벾벿변볁볂볃별볅볆볇볈볉볊볋볌볍볎볏볐병볒볓볔볕볖볗볘볙볚볛볜볝볞볟볠볡볢볣볤볥볦볧볨볩볪볫볬볭볮볯볰볱볲볳보복볶볷본볹볺볻볼볽볾볿부북붂붃분붅붆붇불붉붊붋붌붍붎붏붐붑붒붓붔붕붖붗붘붙붚붛붜붝붞붟붠붡붢붣붤붥붦붧붨붩붪붫붬붭붮붯붰붱붲붳붴붵붶붷붸붹붺붻붼붽붾붿뷀뷁뷂뷃뷄뷅뷆뷇뷈뷉뷊뷋뷌뷍뷎뷏뷐뷑뷒뷓뷔뷕뷖뷗뷘뷙뷚뷛뷜뷝뷞뷟뷠뷡뷢뷣뷤뷥뷦뷧뷨뷩뷪뷫뷬뷭뷮뷯뷰뷱뷲뷳뷴뷵뷶뷷뷸뷹뷺뷻뷼뷽뷾뷿뺀뺁뺂뺃뺄뺅뺆뺇뺈뺉뺊뺋뺌뺍뺎뺏뺐뺑뺒뺓뺔뺕뺖뺗뺘뺙뺚뺛뺜뺝뺞뺟뺠뺡뺢뺣뺤뺥뺦뺧뺨뺩뺪뺫뺬뺭뺮뺯뺰뺱뺲뺳뺴뺵뺶뺷뺸뺹뺺뺻뺼뺽뺾뺿뻀뻁뻂뻃뻄뻅뻆뻇뻈뻉뻊뻋뻌뻍뻎뻏뻐뻑뻒뻓뻔뻕뻖뻗뻘뻙뻚뻛뻜뻝뻞뻟뻠뻡뻢뻣뻤뻥뻦뻧뻨뻩뻪뻫뻬뻭뻮뻯뻰뻱뻲뻳뻴뻵뻶뻷뻸뻹뻺뻻뻼뻽뻾뻿뾀뾁뾂뾃뾄뾅뾆뾇뾈뾉뾊뾋뾌뾍뾎뾏뾐뾑뾒뾓뾔뾕뾖뾗뾘뾙뾚뾛뾜뾝뾞뾟뾠뾡뾢뾣뾤뾥뾦뾧뾨뾩뾪뾫뾬뾭뾮뾯뾰뾱뾲뾳뾴뾵뾶뾷뾸뾹뾺뾻뾼뾽뾾뾿뿀뿁뿂뿃뿄뿅뿆뿇뿈뿉뿊뿋뿌뿍뿎뿏뿐뿑뿒뿓뿔뿕뿖뿗뿘뿙뿚뿛뿜뿝뿞뿟뿠뿡뿢뿣뿤뿥뿦뿧뿨뿩뿪뿫뿬뿭뿮뿯뿰뿱뿲뿳뿴뿵뿶뿷뿸뿹뿺뿻뿼뿽뿾뿿삀삁삂삃삄삅삆삇삈삉삊삋삌삍삎삏삐삑삒삓삔삕삖삗삘삙삚삛삜삝삞삟삠삡삢삣삤삥삦삧삨삩삪삫사삭삮삯산삱삲삳살삵삶삷삸삹삺삻삼삽삾삿샀상샂샃샄샅샆샇새색샊샋샌샍샎샏샐샑샒샓샔샕샖샗샘샙샚샛샜생샞샟샠샡샢샣샤샥샦샧샨샩샪샫샬샭샮샯샰샱샲샳샴샵샶샷샸샹샺샻샼샽샾샿솀솁솂솃솄솅솆솇솈솉솊솋소속솎솏손솑솒솓솔솕솖솗솘솙솚솛솜솝솞솟솠송솢솣솤솥솦솧솨솩솪솫솬솭솮솯솰솱솲솳솴솵솶솷솸솹솺솻솼솽솾솿쇀쇁쇂쇃쇄쇅쇆쇇쇈쇉쇊쇋쇌쇍쇎쇏쇐쇑쇒쇓쇔쇕쇖쇗쇘쇙쇚쇛쇜쇝쇞쇟쇠쇡쇢쇣쇤쇥쇦쇧쇨쇩쇪쇫쇬쇭쇮쇯쇰쇱쇲쇳쇴쇵쇶쇷쇸쇹쇺쇻쇼쇽쇾쇿슀슁슂슃슄슅슆슇슈슉슊슋슌슍슎슏슐슑슒슓슔슕슖슗슘슙슚슛슜슝슞슟슠슡슢슣스슥슦슧슨슩슪슫슬슭슮슯슰슱슲슳슴습슶슷슸승슺슻슼슽슾슿싀싁싂싃싄싅싆싇싈싉싊싋싌싍싎싏싐싑싒싓싔싕싖싗싘싙싚싛시식싞싟신싡싢싣실싥싦싧싨싩싪싫심십싮싯싰싱싲싳싴싵싶싷싸싹싺싻싼싽싾싿쎀쎁쎂쎃쎄쎅쎆쎇쎈쎉쎊쎋쎌쎍쎎쎏쎐쎑쎒쎓쎔쎕쎖쎗쎘쎙쎚쎛쎜쎝쎞쎟쎠쎡쎢쎣쎤쎥쎦쎧쎨쎩쎪쎫쎬쎭쎮쎯쎰쎱쎲쎳쎴쎵쎶쎷쎸쎹쎺쎻쎼쎽쎾쎿쏀쏁쏂쏃쏄쏅쏆쏇쏈쏉쏊쏋쏌쏍쏎쏏쏐쏑쏒쏓쏔쏕쏖쏗쏘쏙쏚쏛쏜쏝쏞쏟쏠쏡쏢쏣쏤쏥쏦쏧쏨쏩쏪쏫쏬쏭쏮쏯쏰쏱쏲쏳쏴쏵쏶쏷쏸쏹쏺쏻쏼쏽쏾쏿쒀쒁쒂쒃쒄쒅쒆쒇쒈쒉쒊쒋쒌쒍쒎쒏쒐쒑쒒쒓쒔쒕쒖쒗쒘쒙쒚쒛쒜쒝쒞쒟쒠쒡쒢쒣쒤쒥쒦쒧쒨쒩쒪쒫쒬쒭쒮쒯쒰쒱쒲쒳쒴쒵쒶쒷쒸쒹쒺쒻쒼쒽쒾쒿쓀쓁쓂쓃쓄쓅쓆쓇쓈쓉쓊쓋쓌쓍쓎쓏쓐쓑쓒쓓쓔쓕쓖쓗쓘쓙쓚쓛쓜쓝쓞쓟쓠쓡쓢쓣쓤쓥쓦쓧쓨쓩쓪쓫쓬쓭쓮쓯쓰쓱쓲쓳쓴쓵쓶쓷쓸쓹쓺쓻쓼쓽쓾쓿얀얁얂얃얄얅얆얇얈얉얊얋얌얍얎얏얐양얒얓얔얕얖얗얘얙얚얛얜얝얞얟얠얡얢얣얤얥얦얧얨얩얪얫얬얭얮얯얰얱얲얳어억얶얷언얹얺얻얼얽얾얿엀엁엂엃엄업없엇었엉엊엋엌엍엎엏에엑엒엓엔엕엖엗엘엙엚엛엜엝엞엟엠엡엢엣엤엥엦엧엨엩엪엫여역엮엯연엱엲엳열엵엶엷엸엹엺엻염엽엾엿욀욁욂욃욄욅욆욇욈욉욊욋욌욍욎욏욐욑욒욓요욕욖욗욘욙욚욛욜욝욞욟욠욡욢욣욤욥욦욧욨용욪욫욬욭욮욯우욱욲욳운욵욶욷울욹욺욻욼욽욾욿움웁웂웃웄웅웆웇웈웉웊웋워웍웎웏원웑웒웓월웕웖웗웘웙웚웛웜웝웞웟웠웡웢웣웤웥웦웧웨웩웪웫웬웭웮웯웰웱웲웳웴웵웶웷웸웹웺웻웼웽웾웿잀잁잂잃임입잆잇있잉잊잋잌잍잎잏자작잒잓잔잕잖잗잘잙잚잛잜잝잞잟잠잡잢잣잤장잦잧잨잩잪잫재잭잮잯잰잱잲잳잴잵잶잷잸잹잺잻잼잽잾잿쟀쟁쟂쟃쟄쟅쟆쟇쟈쟉쟊쟋쟌쟍쟎쟏쟐쟑쟒쟓쟔쟕쟖쟗쟘쟙쟚쟛쟜쟝쟞쟟쟠쟡쟢쟣쟤쟥쟦쟧쟨쟩쟪쟫쟬쟭쟮쟯쟰쟱쟲쟳쟴쟵쟶쟷쟸쟹쟺쟻쟼쟽쟾쟿좀좁좂좃좄종좆좇좈좉좊좋좌좍좎좏좐좑좒좓좔좕좖좗좘좙좚좛좜좝좞좟좠좡좢좣좤좥좦좧좨좩좪좫좬좭좮좯좰좱좲좳좴좵좶좷좸좹좺좻좼좽좾좿죀죁죂죃죄죅죆죇죈죉죊죋죌죍죎죏죐죑죒죓죔죕죖죗죘죙죚죛죜죝죞죟죠죡죢죣죤죥죦죧죨죩죪죫죬죭죮죯죰죱죲죳죴죵죶죷죸죹죺죻주죽죾죿즀즁즂즃즄즅즆즇즈즉즊즋즌즍즎즏즐즑즒즓즔즕즖즗즘즙즚즛즜증즞즟즠즡즢즣즤즥즦즧즨즩즪즫즬즭즮즯즰즱즲즳즴즵즶즷즸즹즺즻즼즽즾즿지직짂짃진짅짆짇질짉짊짋짌짍짎짏짐집짒짓짔징짖짗짘짙짚짛짜짝짞짟짠짡짢짣짤짥짦짧짨짩짪짫짬짭짮짯짰짱짲짳짴짵짶짷째짹짺짻짼짽짾짿쪀쪁쪂쪃쪄쪅쪆쪇쪈쪉쪊쪋쪌쪍쪎쪏쪐쪑쪒쪓쪔쪕쪖쪗쪘쪙쪚쪛쪜쪝쪞쪟쪠쪡쪢쪣쪤쪥쪦쪧쪨쪩쪪쪫쪬쪭쪮쪯쪰쪱쪲쪳쪴쪵쪶쪷쪸쪹쪺쪻쪼쪽쪾쪿쫀쫁쫂쫃쫄쫅쫆쫇쫈쫉쫊쫋쫌쫍쫎쫏쫐쫑쫒쫓쫔쫕쫖쫗쫘쫙쫚쫛쫜쫝쫞쫟쫠쫡쫢쫣쫤쫥쫦쫧쫨쫩쫪쫫쫬쫭쫮쫯쫰쫱쫲쫳쫴쫵쫶쫷쫸쫹쫺쫻쫼쫽쫾쫿쮀쮁쮂쮃쮄쮅쮆쮇쮈쮉쮊쮋쮌쮍쮎쮏쮐쮑쮒쮓쮔쮕쮖쮗쮘쮙쮚쮛쮜쮝쮞쮟쮠쮡쮢쮣쮤쮥쮦쮧쮨쮩쮪쮫쮬쮭쮮쮯쮰쮱쮲쮳쮴쮵쮶쮷쮸쮹쮺쮻쮼쮽쮾쮿쯀쯁쯂쯃쯄쯅쯆쯇쯈쯉쯊쯋쯌쯍쯎쯏쯐쯑쯒쯓쯔쯕쯖쯗쯘쯙쯚쯛쯜쯝쯞쯟쯠쯡쯢쯣쯤쯥쯦쯧쯨쯩쯪쯫쯬쯭쯮쯯쯰쯱쯲쯳쯴쯵쯶쯷쯸쯹쯺쯻쯼쯽쯾쯿첀첁첂첃첄첅첆첇첈첉첊첋첌첍첎첏첐첑첒첓첔첕첖첗처척첚첛천첝첞첟철첡첢첣첤첥첦첧첨첩첪첫첬청첮첯첰첱첲첳체첵첶첷첸첹첺첻첼첽첾첿쳀쳁쳂쳃쳄쳅쳆쳇쳈쳉쳊쳋쳌쳍쳎쳏쳐쳑쳒쳓쳔쳕쳖쳗쳘쳙쳚쳛쳜쳝쳞쳟쳠쳡쳢쳣쳤쳥쳦쳧쳨쳩쳪쳫쳬쳭쳮쳯쳰쳱쳲쳳쳴쳵쳶쳷쳸쳹쳺쳻쳼쳽쳾쳿춀춁춂춃춄춅춆춇춈춉춊춋춌춍춎춏춐춑춒춓추축춖춗춘춙춚춛출춝춞춟춠춡춢춣춤춥춦춧춨충춪춫춬춭춮춯춰춱춲춳춴춵춶춷춸춹춺춻춼춽춾춿췀췁췂췃췄췅췆췇췈췉췊췋췌췍췎췏췐췑췒췓췔췕췖췗췘췙췚췛췜췝췞췟췠췡췢췣췤췥췦췧취췩췪췫췬췭췮췯췰췱췲췳췴췵췶췷췸췹췺췻췼췽췾췿캀캁캂캃캄캅캆캇캈캉캊캋캌캍캎캏캐캑캒캓캔캕캖캗캘캙캚캛캜캝캞캟캠캡캢캣캤캥캦캧캨캩캪캫캬캭캮캯캰캱캲캳캴캵캶캷캸캹캺캻캼캽캾캿컀컁컂컃컄컅컆컇컈컉컊컋컌컍컎컏컐컑컒컓컔컕컖컗컘컙컚컛컜컝컞컟컠컡컢컣커컥컦컧컨컩컪컫컬컭컮컯컰컱컲컳컴컵컶컷컸컹컺컻컼컽컾컿쾀쾁쾂쾃쾄쾅쾆쾇쾈쾉쾊쾋쾌쾍쾎쾏쾐쾑쾒쾓쾔쾕쾖쾗쾘쾙쾚쾛쾜쾝쾞쾟쾠쾡쾢쾣쾤쾥쾦쾧쾨쾩쾪쾫쾬쾭쾮쾯쾰쾱쾲쾳쾴쾵쾶쾷쾸쾹쾺쾻쾼쾽쾾쾿쿀쿁쿂쿃쿄쿅쿆쿇쿈쿉쿊쿋쿌쿍쿎쿏쿐쿑쿒쿓쿔쿕쿖쿗쿘쿙쿚쿛쿜쿝쿞쿟쿠쿡쿢쿣쿤쿥쿦쿧쿨쿩쿪쿫쿬쿭쿮쿯쿰쿱쿲쿳쿴쿵쿶쿷쿸쿹쿺쿻쿼쿽쿾쿿킀킁킂킃킄킅킆킇킈킉킊킋킌킍킎킏킐킑킒킓킔킕킖킗킘킙킚킛킜킝킞킟킠킡킢킣키킥킦킧킨킩킪킫킬킭킮킯킰킱킲킳킴킵킶킷킸킹킺킻킼킽킾킿타탁탂탃탄탅탆탇탈탉탊탋탌탍탎탏탐탑탒탓탔탕탖탗탘탙탚탛태택탞탟탠탡탢탣탤탥탦탧탨탩탪탫탬탭탮탯탰탱탲탳탴탵탶탷탸탹탺탻탼탽탾탿톀톁톂톃톄톅톆톇톈톉톊톋톌톍톎톏톐톑톒톓톔톕톖톗톘톙톚톛톜톝톞톟토톡톢톣톤톥톦톧톨톩톪톫톬톭톮톯톰톱톲톳톴통톶톷톸톹톺톻톼톽톾톿퇀퇁퇂퇃퇄퇅퇆퇇퇈퇉퇊퇋퇌퇍퇎퇏퇐퇑퇒퇓퇔퇕퇖퇗퇘퇙퇚퇛퇜퇝퇞퇟퇠퇡퇢퇣퇤퇥퇦퇧퇨퇩퇪퇫퇬퇭퇮퇯퇰퇱퇲퇳퇴퇵퇶퇷퇸퇹퇺퇻퇼퇽퇾퇿튀튁튂튃튄튅튆튇튈튉튊튋튌튍튎튏튐튑튒튓튔튕튖튗튘튙튚튛튜튝튞튟튠튡튢튣튤튥튦튧튨튩튪튫튬튭튮튯튰튱튲튳튴튵튶튷트특튺튻튼튽튾튿틀틁틂틃틄틅틆틇틈틉틊틋틌틍틎틏틐틑틒틓틔틕틖틗틘틙틚틛틜틝틞틟틠틡틢틣틤틥틦틧틨틩틪틫틬틭틮틯티틱틲틳틴틵틶틷틸틹틺틻틼틽틾틿펀펁펂펃펄펅펆펇펈펉펊펋펌펍펎펏펐펑펒펓펔펕펖펗페펙펚펛펜펝펞펟펠펡펢펣펤펥펦펧펨펩펪펫펬펭펮펯펰펱펲펳펴펵펶펷편펹펺펻펼펽펾펿폀폁폂폃폄폅폆폇폈평폊폋폌폍폎폏폐폑폒폓폔폕폖폗폘폙폚폛폜폝폞폟폠폡폢폣폤폥폦폧폨폩폪폫포폭폮폯폰폱폲폳폴폵폶폷폸폹폺폻폼폽폾폿풀풁풂풃풄풅풆풇품풉풊풋풌풍풎풏풐풑풒풓풔풕풖풗풘풙풚풛풜풝풞풟풠풡풢풣풤풥풦풧풨풩풪풫풬풭풮풯풰풱풲풳풴풵풶풷풸풹풺풻풼풽풾풿퓀퓁퓂퓃퓄퓅퓆퓇퓈퓉퓊퓋퓌퓍퓎퓏퓐퓑퓒퓓퓔퓕퓖퓗퓘퓙퓚퓛퓜퓝퓞퓟퓠퓡퓢퓣퓤퓥퓦퓧퓨퓩퓪퓫퓬퓭퓮퓯퓰퓱퓲퓳퓴퓵퓶퓷퓸퓹퓺퓻퓼퓽퓾퓿햀햁햂햃햄햅햆햇했행햊햋햌햍햎햏햐햑햒햓햔햕햖햗햘햙햚햛햜햝햞햟햠햡햢햣햤향햦햧햨햩햪햫햬햭햮햯햰햱햲햳햴햵햶햷햸햹햺햻햼햽햾햿헀헁헂헃헄헅헆헇허헉헊헋헌헍헎헏헐헑헒헓헔헕헖헗험헙헚헛헜헝헞헟헠헡헢헣헤헥헦헧헨헩헪헫헬헭헮헯헰헱헲헳헴헵헶헷헸헹헺헻헼헽헾헿횀횁횂횃횄횅횆횇횈횉횊횋회획횎횏횐횑횒횓횔횕횖횗횘횙횚횛횜횝횞횟횠횡횢횣횤횥횦횧효횩횪횫횬횭횮횯횰횱횲횳횴횵횶횷횸횹횺횻횼횽횾횿훀훁훂훃후훅훆훇훈훉훊훋훌훍훎훏훐훑훒훓훔훕훖훗훘훙훚훛훜훝훞훟훠훡훢훣훤훥훦훧훨훩훪훫훬훭훮훯훰훱훲훳훴훵훶훷훸훹훺훻훼훽훾훿힀힁힂힃힄힅힆힇히힉힊힋힌힍힎힏힐힑힒힓힔힕힖힗힘힙힚힛힜힝힞힟힠힡힢힣ힰힱힲힳힴힵힶힷힸힹힺힻힼힽힾힿퟀퟁퟂퟃퟄퟅퟆퟋퟌퟍퟎퟏퟐퟑퟒퟓퟔퟕퟖퟗퟘퟙퟚퟛퟜퟝퟞퟟퟠퟡퟢퟣퟤퟥퟦퟧퟨퟩퟪퟫퟬퟭퟮퟯퟰퟱퟲퟳퟴퟵퟶퟷퟸퟹퟺퟻ呂女廬旅濾礪閭驪麗黎力曆歷轢年憐戀撚漣煉璉秊練聯輦蓮連鍊列劣咽烈裂說廉念捻殮簾獵令囹寧嶺怜玲瑩羚聆鈴零靈領例禮醴隸惡了僚寮尿料樂燎療蓼遼龍暈阮劉杻柳流溜琉留硫紐類六戮陸倫崙淪輪律慄栗率隆利吏履易李梨泥理痢罹裏裡里離匿溺吝燐璘藺隣鱗麟林淋臨立笠粒狀炙識什茶刺婢嬨廒廙彩徭惘慎愈憎慠懲戴揄搜摒敖晴朗望杖歹殺流滛滋漢瀞煮瞧爵犯猪瑱甆画瘝瘟益盛直睊着磌窱節类絛練缾者荒華蝹襁覆視調諸請謁諾諭謹變贈輸遲醙鉶陼難靖韛響頋頻鬒龜𢡊𢡄𣏕㮝䀘䀹𥉉𥳐𧻓齃龎ﮀﮁﮂﮃﮄﮅﮆﮇﮈﮉﮊﮋﮌﮍﮎﮏﮐﮑﮒﮓﮔﮕﮖﮗﮘﮙﮚﮛﮜﮝﮞﮟﮠﮡﮢﮣﮤﮥﮦﮧﮨﮩﮪﮫﮬﮭﮮﮯﮰﮱﯓﯔﯕﯖﯗﯘﯙﯚﯛﯜﯝﯞﯟﯠﯡﯢﯣﯤﯥﯦﯧﯨﯩﯪﯫﯬﯭﯮﯯﯰﯱﯲﯳﯴﯵﯶﯷﯸﯹﯺﯻﯼﯽﯾﯿﲀﲁﲂﲃﲄﲅﲆﲇﲈﲉﲊﲋﲌﲍﲎﲏﲐﲑﲒﲓﲔﲕﲖﲗﲘﲙﲚﲛﲜﲝﲞﲟﲠﲡﲢﲣﲤﲥﲦﲧﲨﲩﲪﲫﲬﲭﲮﲯﲰﲱﲲﲳﲴﲵﲶﲷﲸﲹﲺﲻﲼﲽﲾﲿﳀﳁﳂﳃﳄﳅﳆﳇﳈﳉﳊﳋﳌﳍﳎﳏﳐﳑﳒﳓﳔﳕﳖﳗﳘﳙﳚﳛﳜﳝﳞﳟﳠﳡﳢﳣﳤﳥﳦﳧﳨﳩﳪﳫﳬﳭﳮﳯﳰﳱﳲﳳﳴﳵﳶﳷﳸﳹﳺﳻﳼﳽﳾﳿﶀﶁﶂﶃﶄﶅﶆﶇﶈﶉﶊﶋﶌﶍﶎﶏﶒﶓﶔﶕﶖﶗﶘﶙﶚﶛﶜﶝﶞﶟﶠﶡﶢﶣﶤﶥﶦﶧﶨﶩﶪﶫﶬﶭﶮﶯﶰﶱﶲﶳﶴﶵﶶﶷﶸﶹﶺﶻﶼﶽﶾﶿﷀﷁﷂﷃﷄﷅﷆﷇﷰﷱﷲﷳﷴﷵﷶﷷﷸﷹﷺﷻﺀﺁﺂﺃﺄﺅﺆﺇﺈﺉﺊﺋﺌﺍﺎﺏﺐﺑﺒﺓﺔﺕﺖﺗﺘﺙﺚﺛﺜﺝﺞﺟﺠﺡﺢﺣﺤﺥﺦﺧﺨﺩﺪﺫﺬﺭﺮﺯﺰﺱﺲﺳﺴﺵﺶﺷﺸﺹﺺﺻﺼﺽﺾﺿﻀﻁﻂﻃﻄﻅﻆﻇﻈﻉﻊﻋﻌﻍﻎﻏﻐﻑﻒﻓﻔﻕﻖﻗﻘﻙﻚﻛﻜﻝﻞﻟﻠﻡﻢﻣﻤﻥﻦﻧﻨﻩﻪﻫﻬﻭﻮﻯﻰﻱﻲﻳﻴﻵﻶﻷﻸﻹﻺﻻﻼﾀﾁﾂﾃﾄﾅﾆﾇﾈﾉﾊﾋﾌﾍﾎﾏﾐﾑﾒﾓﾔﾕﾖﾗﾘﾙﾚﾛﾜﾝﾞﾟﾠﾡﾢﾣﾤﾥﾦﾧﾨﾩﾪﾫﾬﾭﾮﾯﾰﾱﾲﾳﾴﾵﾶﾷﾸﾹﾺﾻﾼﾽﾾￂￃￄￅￆￇￊￋￌￍￎￏￒￓￔￕￖￗￚￛￜ"

AlnumPairs ==
    "𰂀𰂁𰂂𰂃𰂄𰂅𰂆𰂇𰂈𰂉𰂊𰂋𰂌𰂍𰂎𰂏𰂐𰂑𰂒𰂓𰂔𰂕𰂖𰂗𰂘𰂙𰂚𰂛𰂜𰂝𰂞𰂟𰂠𰂡𰂢𰂣𰂤𰂥𰂦𰂧𰂨𰂩𰂪𰂫𰂬𰂭𰂮𰂯𰂰𰂱𰂲𰂳𰂴𰂵𰂶𰂷𰂸𰂹𰂺𰂻𰂼𰂽𰂾𰂿𰃀𰃁𰃂𰃃𰃄𰃅𰃆𰃇𰃈𰃉𰃊𰃋𰃌𰃍𰃎𰃏𰃐𰃑𰃒𰃓𰃔𰃕𰃖𰃗𰃘𰃙𰃚𰃛𰃜𰃝𰃞𰃟𰃠𰃡𰃢𰃣𰃤𰃥𰃦𰃧𰃨𰃩𰃪𰃫𰃬𰃭𰃮𰃯𰃰𰃱𰃲𰃳𰃴𰃵𰃶𰃷𰃸𰃹𰃺𰃻𰃼𰃽𰃾𰃿𰆀𰆁𰆂𰆃𰆄𰆅𰆆𰆇𰆈𰆉𰆊𰆋𰆌𰆍𰆎𰆏𰆐𰆑𰆒𰆓𰆔𰆕𰆖𰆗𰆘𰆙𰆚𰆛𰆜𰆝𰆞𰆟𰆠𰆡𰆢𰆣𰆤𰆥𰆦𰆧𰆨𰆩𰆪𰆫𰆬𰆭𰆮𰆯𰆰𰆱𰆲𰆳𰆴𰆵𰆶𰆷𰆸𰆹𰆺𰆻𰆼𰆽𰆾𰆿𰇀𰇁𰇂𰇃𰇄𰇅𰇆𰇇𰇈𰇉𰇊𰇋𰇌𰇍𰇎𰇏𰇐𰇑𰇒𰇓𰇔𰇕𰇖𰇗𰇘𰇙𰇚𰇛𰇜𰇝𰇞𰇟𰇠𰇡𰇢𰇣𰇤𰇥𰇦𰇧𰇨𰇩𰇪𰇫𰇬𰇭𰇮𰇯𰇰𰇱𰇲𰇳𰇴𰇵𰇶𰇷𰇸𰇹𰇺𰇻𰇼𰇽𰇾𰇿𰊀𰊁𰊂𰊃𰊄𰊅𰊆𰊇𰊈𰊉𰊊𰊋𰊌𰊍𰊎𰊏𰊐𰊑𰊒𰊓𰊔𰊕𰊖𰊗𰊘𰊙𰊚𰊛𰊜𰊝𰊞𰊟𰊠𰊡𰊢𰊣𰊤𰊥𰊦𰊧𰊨𰊩𰊪𰊫𰊬𰊭𰊮𰊯𰊰𰊱𰊲𰊳𰊴𰊵𰊶𰊷𰊸𰊹𰊺𰊻𰊼𰊽𰊾𰊿𰋀𰋁𰋂𰋃𰋄𰋅𰋆𰋇𰋈𰋉𰋊𰋋𰋌𰋍𰋎𰋏𰋐𰋑𰋒𰋓𰋔𰋕𰋖𰋗𰋘𰋙𰋚𰋛𰋜𰋝𰋞𰋟𰋠𰋡𰋢𰋣𰋤𰋥𰋦𰋧𰋨𰋩𰋪𰋫𰋬𰋭𰋮𰋯𰋰𰋱𰋲𰋳𰋴𰋵𰋶𰋷𰋸𰋹𰋺𰋻𰋼𰋽𰋾𰋿𰎀𰎁𰎂𰎃𰎄𰎅𰎆𰎇𰎈𰎉𰎊𰎋𰎌𰎍𰎎𰎏𰎐𰎑𰎒𰎓𰎔𰎕𰎖𰎗𰎘𰎙𰎚𰎛𰎜𰎝𰎞𰎟𰎠𰎡𰎢𰎣𰎤𰎥𰎦𰎧𰎨𰎩𰎪𰎫𰎬𰎭𰎮𰎯𰎰𰎱𰎲𰎳𰎴𰎵𰎶𰎷𰎸𰎹𰎺𰎻𰎼𰎽𰎾𰎿𰏀𰏁𰏂𰏃𰏄𰏅𰏆𰏇𰏈𰏉𰏊𰏋𰏌𰏍𰏎𰏏𰏐𰏑𰏒𰏓𰏔𰏕𰏖𰏗𰏘𰏙𰏚𰏛𰏜𰏝𰏞𰏟𰏠𰏡𰏢𰏣𰏤𰏥𰏦𰏧𰏨𰏩𰏪𰏫𰏬𰏭𰏮𰏯𰏰𰏱𰏲𰏳𰏴𰏵𰏶𰏷𰏸𰏹𰏺𰏻𰏼𰏽𰏾𰏿𰒀𰒁𰒂𰒃𰒄𰒅𰒆𰒇𰒈𰒉𰒊𰒋𰒌𰒍𰒎𰒏𰒐𰒑𰒒𰒓𰒔𰒕𰒖𰒗𰒘𰒙𰒚𰒛𰒜𰒝𰒞𰒟𰒠𰒡𰒢𰒣𰒤𰒥𰒦𰒧𰒨𰒩𰒪𰒫𰒬𰒭𰒮𰒯𰒰𰒱𰒲𰒳𰒴𰒵𰒶𰒷𰒸𰒹𰒺𰒻𰒼𰒽𰒾𰒿𰓀𰓁𰓂𰓃𰓄𰓅𰓆𰓇𰓈𰓉𰓊𰓋𰓌𰓍𰓎𰓏𰓐𰓑𰓒𰓓𰓔𰓕𰓖𰓗𰓘𰓙𰓚𰓛𰓜𰓝𰓞𰓟𰓠𰓡𰓢𰓣𰓤𰓥𰓦𰓧𰓨𰓩𰓪𰓫𰓬𰓭𰓮𰓯𰓰𰓱𰓲𰓳𰓴𰓵𰓶𰓷𰓸𰓹𰓺𰓻𰓼𰓽𰓾𰓿𰖀𰖁𰖂𰖃𰖄𰖅𰖆𰖇𰖈𰖉𰖊𰖋𰖌𰖍𰖎𰖏𰖐𰖑𰖒𰖓𰖔𰖕𰖖𰖗𰖘𰖙𰖚𰖛𰖜𰖝𰖞𰖟𰖠𰖡𰖢𰖣𰖤𰖥𰖦𰖧𰖨𰖩𰖪𰖫𰖬𰖭𰖮𰖯𰖰𰖱𰖲𰖳𰖴𰖵𰖶𰖷𰖸𰖹𰖺𰖻𰖼𰖽𰖾𰖿𰗀𰗁𰗂𰗃𰗄𰗅𰗆𰗇𰗈𰗉𰗊𰗋𰗌𰗍𰗎𰗏𰗐𰗑𰗒𰗓𰗔𰗕𰗖𰗗𰗘𰗙𰗚𰗛𰗜𰗝𰗞𰗟𰗠𰗡𰗢𰗣𰗤𰗥𰗦𰗧𰗨𰗩𰗪𰗫𰗬𰗭𰗮𰗯𰗰𰗱𰗲𰗳𰗴𰗵𰗶𰗷𰗸𰗹𰗺𰗻𰗼𰗽𰗾𰗿𰚀𰚁𰚂𰚃𰚄𰚅𰚆𰚇𰚈𰚉𰚊𰚋𰚌𰚍𰚎𰚏𰚐𰚑𰚒𰚓𰚔𰚕𰚖𰚗𰚘𰚙𰚚𰚛𰚜𰚝𰚞𰚟𰚠𰚡𰚢𰚣𰚤𰚥𰚦𰚧𰚨𰚩𰚪𰚫𰚬𰚭𰚮𰚯𰚰𰚱𰚲𰚳𰚴𰚵𰚶𰚷𰚸𰚹𰚺𰚻𰚼𰚽𰚾𰚿𰛀𰛁𰛂𰛃𰛄𰛅𰛆𰛇𰛈𰛉𰛊𰛋𰛌𰛍𰛎𰛏𰛐𰛑𰛒𰛓𰛔𰛕𰛖𰛗𰛘𰛙𰛚𰛛𰛜𰛝𰛞𰛟𰛠𰛡𰛢𰛣𰛤𰛥𰛦𰛧𰛨𰛩𰛪𰛫𰛬𰛭𰛮𰛯𰛰𰛱𰛲𰛳𰛴𰛵𰛶𰛷𰛸𰛹𰛺𰛻𰛼𰛽𰛾𰛿𰞀𰞁𰞂𰞃𰞄𰞅𰞆𰞇𰞈𰞉𰞊𰞋𰞌𰞍𰞎𰞏𰞐𰞑𰞒𰞓𰞔𰞕𰞖𰞗𰞘𰞙𰞚𰞛𰞜𰞝𰞞𰞟𰞠𰞡𰞢𰞣𰞤𰞥𰞦𰞧𰞨𰞩𰞪𰞫𰞬𰞭𰞮𰞯𰞰𰞱𰞲𰞳𰞴𰞵𰞶𰞷𰞸𰞹𰞺𰞻𰞼𰞽𰞾𰞿𰟀𰟁𰟂𰟃𰟄𰟅𰟆𰟇𰟈𰟉𰟊𰟋𰟌𰟍𰟎𰟏𰟐𰟑𰟒𰟓𰟔𰟕𰟖𰟗𰟘𰟙𰟚𰟛𰟜𰟝𰟞𰟟𰟠𰟡𰟢𰟣𰟤𰟥𰟦𰟧𰟨𰟩𰟪𰟫𰟬𰟭𰟮𰟯𰟰𰟱𰟲𰟳𰟴𰟵𰟶𰟷𰟸𰟹𰟺𰟻𰟼𰟽𰟾𰟿𰢀𰢁𰢂𰢃𰢄𰢅𰢆𰢇𰢈𰢉𰢊𰢋𰢌𰢍𰢎𰢏𰢐𰢑𰢒𰢓𰢔𰢕𰢖𰢗𰢘𰢙𰢚𰢛𰢜𰢝𰢞𰢟𰢠𰢡𰢢𰢣𰢤𰢥𰢦𰢧𰢨𰢩𰢪𰢫𰢬𰢭𰢮𰢯𰢰𰢱𰢲𰢳𰢴𰢵𰢶𰢷𰢸𰢹𰢺𰢻𰢼𰢽𰢾𰢿𰣀𰣁𰣂𰣃𰣄𰣅𰣆𰣇𰣈𰣉𰣊𰣋𰣌𰣍𰣎𰣏𰣐𰣑𰣒𰣓𰣔𰣕𰣖𰣗𰣘𰣙𰣚𰣛𰣜𰣝𰣞𰣟𰣠𰣡𰣢𰣣𰣤𰣥𰣦𰣧𰣨𰣩𰣪𰣫𰣬𰣭𰣮𰣯𰣰𰣱𰣲𰣳𰣴𰣵𰣶𰣷𰣸𰣹𰣺𰣻𰣼𰣽𰣾𰣿𰦀𰦁𰦂𰦃𰦄𰦅𰦆𰦇𰦈𰦉𰦊𰦋𰦌𰦍𰦎𰦏𰦐𰦑𰦒𰦓𰦔𰦕𰦖𰦗𰦘𰦙𰦚𰦛𰦜𰦝𰦞𰦟𰦠𰦡𰦢𰦣𰦤𰦥𰦦𰦧𰦨𰦩𰦪𰦫𰦬𰦭𰦮𰦯𰦰𰦱𰦲𰦳𰦴𰦵𰦶𰦷𰦸𰦹𰦺𰦻𰦼𰦽𰦾𰦿𰧀𰧁𰧂𰧃𰧄𰧅𰧆𰧇𰧈𰧉𰧊𰧋𰧌𰧍𰧎𰧏𰧐𰧑𰧒𰧓𰧔𰧕𰧖𰧗𰧘𰧙𰧚𰧛𰧜𰧝𰧞𰧟𰧠𰧡𰧢𰧣𰧤𰧥𰧦𰧧𰧨𰧩𰧪𰧫𰧬𰧭𰧮𰧯𰧰𰧱𰧲𰧳𰧴𰧵𰧶𰧷𰧸𰧹𰧺𰧻𰧼𰧽𰧾𰧿𰪀𰪁𰪂𰪃𰪄𰪅𰪆𰪇𰪈𰪉𰪊𰪋𰪌𰪍𰪎𰪏𰪐𰪑𰪒𰪓𰪔𰪕𰪖𰪗𰪘𰪙𰪚𰪛𰪜𰪝𰪞𰪟𰪠𰪡𰪢𰪣𰪤𰪥𰪦𰪧𰪨𰪩𰪪𰪫𰪬𰪭𰪮𰪯𰪰𰪱𰪲𰪳𰪴𰪵𰪶𰪷𰪸𰪹𰪺𰪻𰪼𰪽𰪾𰪿𰫀𰫁𰫂𰫃𰫄𰫅𰫆𰫇𰫈𰫉𰫊𰫋𰫌𰫍𰫎𰫏𰫐𰫑𰫒𰫓𰫔𰫕𰫖𰫗𰫘𰫙𰫚𰫛𰫜𰫝𰫞𰫟𰫠𰫡𰫢𰫣𰫤𰫥𰫦𰫧𰫨𰫩𰫪𰫫𰫬𰫭𰫮𰫯𰫰𰫱𰫲𰫳𰫴𰫵𰫶𰫷𰫸𰫹𰫺𰫻𰫼𰫽𰫾𰫿𰮀𰮁𰮂𰮃𰮄𰮅𰮆𰮇𰮈𰮉𰮊𰮋𰮌𰮍𰮎𰮏𰮐𰮑𰮒𰮓𰮔𰮕𰮖𰮗𰮘𰮙𰮚𰮛𰮜𰮝𰮞𰮟𰮠𰮡𰮢𰮣𰮤𰮥𰮦𰮧𰮨𰮩𰮪𰮫𰮬𰮭𰮮𰮯𰮰𰮱𰮲𰮳𰮴𰮵𰮶𰮷𰮸𰮹𰮺𰮻𰮼𰮽𰮾𰮿𰯀𰯁𰯂𰯃𰯄𰯅𰯆𰯇𰯈𰯉𰯊𰯋𰯌𰯍𰯎𰯏𰯐𰯑𰯒𰯓𰯔𰯕𰯖𰯗𰯘𰯙𰯚𰯛𰯜𰯝𰯞𰯟𰯠𰯡𰯢𰯣𰯤𰯥𰯦𰯧𰯨𰯩𰯪𰯫𰯬𰯭𰯮𰯯𰯰𰯱𰯲𰯳𰯴𰯵𰯶𰯷𰯸𰯹𰯺𰯻𰯼𰯽𰯾𰯿𰲀𰲁𰲂𰲃𰲄𰲅𰲆𰲇𰲈𰲉𰲊𰲋𰲌𰲍𰲎𰲏𰲐𰲑𰲒𰲓𰲔𰲕𰲖𰲗𰲘𰲙𰲚𰲛𰲜𰲝𰲞𰲟𰲠𰲡𰲢𰲣𰲤𰲥𰲦𰲧𰲨𰲩𰲪𰲫𰲬𰲭𰲮𰲯𰲰𰲱𰲲𰲳𰲴𰲵𰲶𰲷𰲸𰲹𰲺𰲻𰲼𰲽𰲾𰲿𰳀𰳁𰳂𰳃𰳄𰳅𰳆𰳇𰳈𰳉𰳊𰳋𰳌𰳍𰳎𰳏𰳐𰳑𰳒𰳓𰳔𰳕𰳖𰳗𰳘𰳙𰳚𰳛𰳜𰳝𰳞𰳟𰳠𰳡𰳢𰳣𰳤𰳥𰳦𰳧𰳨𰳩𰳪𰳫𰳬𰳭𰳮𰳯𰳰𰳱𰳲𰳳𰳴𰳵𰳶𰳷𰳸𰳹𰳺𰳻𰳼𰳽𰳾𰳿𰶀𰶁𰶂𰶃𰶄𰶅𰶆𰶇𰶈𰶉𰶊𰶋𰶌𰶍𰶎𰶏𰶐𰶑𰶒𰶓𰶔𰶕𰶖𰶗𰶘𰶙𰶚𰶛𰶜𰶝𰶞𰶟𰶠𰶡𰶢𰶣𰶤𰶥𰶦𰶧𰶨𰶩𰶪𰶫𰶬𰶭𰶮𰶯𰶰𰶱𰶲𰶳𰶴𰶵𰶶𰶷𰶸𰶹𰶺𰶻𰶼𰶽𰶾𰶿𰷀𰷁𰷂𰷃𰷄𰷅𰷆𰷇𰷈𰷉𰷊𰷋𰷌𰷍𰷎𰷏𰷐𰷑𰷒𰷓𰷔𰷕𰷖𰷗𰷘𰷙𰷚𰷛𰷜𰷝𰷞𰷟𰷠𰷡𰷢𰷣𰷤𰷥𰷦𰷧𰷨𰷩𰷪𰷫𰷬𰷭𰷮𰷯𰷰𰷱𰷲𰷳𰷴𰷵𰷶𰷷𰷸𰷹𰷺𰷻𰷼𰷽𰷾𰷿𰺀𰺁𰺂𰺃𰺄𰺅𰺆𰺇𰺈𰺉𰺊𰺋𰺌𰺍𰺎𰺏𰺐𰺑𰺒𰺓𰺔𰺕𰺖𰺗𰺘𰺙𰺚𰺛𰺜𰺝𰺞𰺟𰺠𰺡𰺢𰺣𰺤𰺥𰺦𰺧𰺨𰺩𰺪𰺫𰺬𰺭𰺮𰺯𰺰𰺱𰺲𰺳𰺴𰺵𰺶𰺷𰺸𰺹𰺺𰺻𰺼𰺽𰺾𰺿𰻀𰻁𰻂𰻃𰻄𰻅𰻆𰻇𰻈𰻉𰻊𰻋𰻌𰻍𰻎𰻏𰻐𰻑𰻒𰻓𰻔𰻕𰻖𰻗𰻘𰻙𰻚𰻛𰻜𰻝𰻞𰻟𰻠𰻡𰻢𰻣𰻤𰻥𰻦𰻧𰻨𰻩𰻪𰻫𰻬𰻭𰻮𰻯𰻰𰻱𰻲𰻳𰻴𰻵𰻶𰻷𰻸𰻹𰻺𰻻𰻼𰻽𰻾𰻿𰾀𰾁𰾂𰾃𰾄𰾅𰾆𰾇𰾈𰾉𰾊𰾋𰾌𰾍𰾎𰾏𰾐𰾑𰾒𰾓𰾔𰾕𰾖𰾗𰾘𰾙𰾚𰾛𰾜𰾝𰾞𰾟𰾠𰾡𰾢𰾣𰾤𰾥𰾦𰾧𰾨𰾩𰾪𰾫𰾬𰾭𰾮𰾯𰾰𰾱𰾲𰾳𰾴𰾵𰾶𰾷𰾸𰾹𰾺𰾻𰾼𰾽𰾾𰾿𰿀𰿁𰿂𰿃𰿄𰿅𰿆𰿇𰿈𰿉𰿊𰿋𰿌𰿍𰿎𰿏𰿐𰿑𰿒𰿓𰿔𰿕𰿖𰿗𰿘𰿙𰿚𰿛𰿜𰿝𰿞𰿟𰿠𰿡𰿢𰿣𰿤𰿥𰿦𰿧𰿨𰿩𰿪𰿫𰿬𰿭𰿮𰿯𰿰𰿱𰿲𰿳𰿴𰿵𰿶𰿷𰿸𰿹𰿺𰿻𰿼𰿽𰿾𰿿𱂀𱂁𱂂𱂃𱂄𱂅𱂆𱂇𱂈𱂉𱂊𱂋𱂌𱂍𱂎𱂏𱂐𱂑𱂒𱂓𱂔𱂕𱂖𱂗𱂘𱂙𱂚𱂛𱂜𱂝𱂞𱂟𱂠𱂡𱂢𱂣𱂤𱂥𱂦𱂧𱂨𱂩𱂪𱂫𱂬𱂭𱂮𱂯𱂰𱂱𱂲𱂳𱂴𱂵𱂶𱂷𱂸𱂹𱂺𱂻𱂼𱂽𱂾𱂿𱃀𱃁𱃂𱃃𱃄𱃅𱃆𱃇𱃈𱃉𱃊𱃋𱃌𱃍𱃎𱃏𱃐𱃑𱃒𱃓𱃔𱃕𱃖𱃗𱃘𱃙𱃚𱃛𱃜𱃝𱃞𱃟𱃠𱃡𱃢𱃣𱃤𱃥𱃦𱃧𱃨𱃩𱃪𱃫𱃬𱃭𱃮𱃯𱃰𱃱𱃲𱃳𱃴𱃵𱃶𱃷𱃸𱃹𱃺𱃻𱃼𱃽𱃾𱃿𱆀𱆁𱆂𱆃𱆄𱆅𱆆𱆇𱆈𱆉𱆊𱆋𱆌𱆍𱆎𱆏𱆐𱆑𱆒𱆓𱆔𱆕𱆖𱆗𱆘𱆙𱆚𱆛𱆜𱆝𱆞𱆟𱆠𱆡𱆢𱆣𱆤𱆥𱆦𱆧𱆨𱆩𱆪𱆫𱆬𱆭𱆮𱆯𱆰𱆱𱆲𱆳𱆴𱆵𱆶𱆷𱆸𱆹𱆺𱆻𱆼𱆽𱆾𱆿𱇀𱇁𱇂𱇃𱇄𱇅𱇆𱇇𱇈𱇉𱇊𱇋𱇌𱇍𱇎𱇏𱇐𱇑𱇒𱇓𱇔𱇕𱇖𱇗𱇘𱇙𱇚𱇛𱇜𱇝𱇞𱇟𱇠𱇡𱇢𱇣𱇤𱇥𱇦𱇧𱇨𱇩𱇪𱇫𱇬𱇭𱇮𱇯𱇰𱇱𱇲𱇳𱇴𱇵𱇶𱇷𱇸𱇹𱇺𱇻𱇼𱇽𱇾𱇿𱊀𱊁𱊂𱊃𱊄𱊅𱊆𱊇𱊈𱊉𱊊𱊋𱊌𱊍𱊎𱊏𱊐𱊑𱊒𱊓𱊔𱊕𱊖𱊗𱊘𱊙𱊚𱊛𱊜𱊝𱊞𱊟𱊠𱊡𱊢𱊣𱊤𱊥𱊦𱊧𱊨𱊩𱊪𱊫𱊬𱊭𱊮𱊯𱊰𱊱𱊲𱊳𱊴𱊵𱊶𱊷𱊸𱊹𱊺𱊻𱊼𱊽𱊾𱊿𱋀𱋁𱋂𱋃𱋄𱋅𱋆𱋇𱋈𱋉𱋊𱋋𱋌𱋍𱋎𱋏𱋐𱋑𱋒𱋓𱋔𱋕𱋖𱋗𱋘𱋙𱋚𱋛𱋜𱋝𱋞𱋟𱋠𱋡𱋢𱋣𱋤𱋥𱋦𱋧𱋨𱋩𱋪𱋫𱋬𱋭𱋮𱋯𱋰𱋱𱋲𱋳𱋴𱋵𱋶𱋷𱋸𱋹𱋺𱋻𱋼𱋽𱋾𱋿"

Alnum ==
    {SubSeq(AlnumChars, i, i) : i \in 1..Len(AlnumChars)}
        \cup {SubSeq(AlnumPairs, 2 * i - 1, 2 * i) : i \in 1..(Len(AlnumPairs) \div 2)}

\* str.isalnum() of a one-character string
isalnum(c) == c \in Alnum

\* no whitespace character is a surrogate, so it is stripped unit by unit
RECURSIVE lstrip(_)
lstrip(s) ==
    IF s # "" /\ SubSeq(s, 1, 1) \in Whitespace
    THEN lstrip(SubSeq(s, 2, Len(s)))
    ELSE s

RECURSIVE rstrip(_)
rstrip(s) ==
    IF s # "" /\ SubSeq(s, Len(s), Len(s)) \in Whitespace
    THEN rstrip(SubSeq(s, 1, Len(s) - 1))
    ELSE s

\* str.strip()
strip(s) == rstrip(lstrip(s))

\* str.startswith(p)
startswith(s, p) == Len(p) <= Len(s) /\ SubSeq(s, 1, Len(p)) = p

\* p in s
contains(s, p) ==
    \E i \in 1..(Len(s) - Len(p) + 1) : SubSeq(s, i, i + Len(p) - 1) = p

\* str.index(c) for a one-character c, as a 1-based position; 0 when the
\* character is absent (where Python raises ValueError)
index(s, c) ==
    LET cs == Chars(s)
    IN  IF \E i \in 1..Len(cs) : cs[i] = c
        THEN CHOOSE i \in 1..Len(cs) :
                /\ cs[i] = c
                /\ \A j \in 1..(i - 1) : cs[j] # c
        ELSE 0

\* str.rindex(c), likewise
rindex(s, c) ==
    LET cs == Chars(s)
    IN  IF \E i \in 1..Len(cs) : cs[i] = c
        THEN CHOOSE i \in 1..Len(cs) :
                /\ cs[i] = c
                /\ \A j \in (i + 1)..Len(cs) : cs[j] # c
        ELSE 0

\* the positions where old occurs in s
Occurrences(s, old) ==
    {i \in 1..(Len(s) - Len(old) + 1) : SubSeq(s, i, i + Len(old) - 1) = old}

RECURSIVE Keep(_, _, _, _, _)
\* the units of s[lo..hi] outside the occurrences, of length n, that
\* start at the positions occ
Keep(s, occ, n, lo, hi) ==
    IF lo > hi THEN ""
    ELSE IF lo = hi
    THEN (IF \E p \in occ : p <= lo /\ lo < p + n THEN "" ELSE SubSeq(s, lo, lo))
    ELSE Keep(s, occ, n, lo, (lo + hi) \div 2)
            \o Keep(s, occ, n, (lo + hi) \div 2 + 1, hi)

\* str.replace(old, ''): every non-overlapping occurrence, left to right.
\* The texts removed here ('const ', '&', '*') cannot overlap themselves, so
\* every occurrence is removed.
remove(s, old) ==
    LET occ == Occurrences(s, old)
    IN  IF occ = {} THEN s ELSE Keep(s, occ, Len(old), 1, Len(s))

---------------------------------------------------------------------------
(* Syntax-tree nodes *)

\* A node is [type, text, utf8, children]: text is the source between its
\* start_byte and end_byte, utf8 whether those bytes decode as UTF-8.
Leaf(t, s) == [type |-> t, text |-> s, utf8 |-> TRUE, children |-> <<>>]

\* an anonymous token: its type is its text
Tok(s) == Leaf(s, s)

\* a token written in Latin-1 that holds the word Größe between before and
\* after; text holds the bytes, those outside ASCII written \xNN.  The byte
\* F6 stands in no UTF-8 text, so the bytes do not decode, whatever is
\* written around the word
Latin1(t, before, after) ==
    [type |-> t, text |-> before \o "Gr\\xf6\\xdfe" \o after, utf8 |-> FALSE,
     children |-> <<>>]

\* what stands between two neighbouring tokens in the source, the first
\* ending in left and the second beginning with right
Gap(left, right, layout) ==
    CASE layout = "blank" -> " "
      [] layout = "wide" -> "\n\t "
      [] layout = "compact" ->
            IF left # "" /\ right # ""
                /\ (isalnum(LastChar(left)) \/ LastChar(left) = "_")
                /\ (isalnum(FirstChar(right)) \/ FirstChar(right) = "_")
            THEN " " ELSE ""

RECURSIVE SourceFrom(_, _, _)
\* the source from the start of ch[i] to the end of the last node of ch
SourceFrom(ch, i, layout) ==
    IF i > Len(ch) THEN ""
    ELSE IF i = Len(ch) THEN ch[i].text
    ELSE LET rest == SourceFrom(ch, i + 1, layout)
         IN  ch[i].text \o Gap(ch[i].text, rest, layout) \o rest

\* a node with the children ch, in a source that has one blank between tokens
Mk(t, ch) ==
    [type |-> t, text |-> SourceFrom(ch, 1, "blank"),
     utf8 |-> \A i \in 1..Len(ch) : ch[i].utf8, children |-> ch]

RECURSIVE Relaid(_, _)
\* the tree of the same tokens in a source laid out otherwise
Relaid(node, layout) ==
    IF node.children = <<>> THEN node
    ELSE LET ch == [i \in 1..Len(node.children) |-> Relaid(node.children[i], layout)]
         IN  [node EXCEPT !.children = ch, !.text = SourceFrom(ch, 1, layout)]

Layouts == {"blank", "compact", "wide"}

\* the absent node (Python None) of the Optional[Node] helpers
NoNode == [type |-> "<none>", text |-> "", utf8 |-> TRUE, children |-> <<>>]

\* raised by bytes.decode('utf-8')
UnicodeDecodeError == [kind |-> "UnicodeDecodeError"]

\* source_code[node.start_byte:node.end_byte].decode('utf-8')
_get_node_text(node) == IF node.utf8 THEN node.text ELSE UnicodeDecodeError

RECURSIVE FirstIndexFrom(_, _, _)
FirstIndexFrom(ch, types, i) ==
    IF i > Len(ch) THEN 0
    ELSE IF ch[i].type \in types THEN i
    ELSE FirstIndexFrom(ch, types, i + 1)

\* first child whose type is one of types, else NoNode
_find_child_by_type(node, types) ==
    LET i == FirstIndexFrom(node.children, types, 1)
    IN  IF i = 0 THEN NoNode ELSE node.children[i]

---------------------------------------------------------------------------
(* Descriptors *)

None == [kind |-> "None"]

IOError == [kind |-> "FileNotFoundError"]

Pending == [kind |-> "pending"]

PropertyInfo(n, t) == [name |-> n, type_name |-> t]

EventInfo(n, args) == [name |-> n, arg_types |-> args]

ConstInfo(n, t, st) == [name |-> n, type_name |-> t, is_static |-> st]

EnumInfo(n, vals, scoped) == [name |-> n, enum_values |-> vals, is_enum_class |-> scoped]

MethodInfo(n, rt, params, async) ==
    [kind |-> "MethodInfo", name |-> n, return_type |-> rt,
     parameters |-> params, is_async |-> async]

ClassInfo(n, ns) ==
    [kind |-> "ClassInfo", name |-> n, namespace |-> ns,
     properties |-> <<>>, events |-> <<>>, constants |-> <<>>, enums |-> <<>>,
     constructors |-> <<>>, sync_methods |-> <<>>, async_methods |-> <<>>]

---------------------------------------------------------------------------
(* Type renderer *)

RECURSIVE _normalize_type(_)
RECURSIVE NormalizeChildren(_, _, _, _)

_normalize_type(node) ==
    IF node.type = "comment" THEN ""
    ELSE IF node.children = <<>> THEN strip(_get_node_text(node))
    ELSE NormalizeChildren(node.children, 1, "", FALSE)

RECURSIVE NormalizeChildren_spaced(_, _, _, _)
\* fault: every two fragments are separated by a blank
NormalizeChildren_spaced(ch, i, parts, prev_needs_space) ==
    IF i > Len(ch) THEN parts
    ELSE IF ch[i].type \in {"comment", "initializer_list", "argument_list"}
    THEN NormalizeChildren_spaced(ch, i + 1, parts, prev_needs_space)
    ELSE IF _get_node_text(ch[i]) = "{" THEN parts
    ELSE LET text == _normalize_type(ch[i])
         IN  IF text = ""
             THEN NormalizeChildren_spaced(ch, i + 1, parts, prev_needs_space)
             ELSE NormalizeChildren_spaced(ch, i + 1,
                     parts \o (IF parts # "" THEN " " ELSE "") \o text, TRUE)

\* the loop over node.children: parts joined so far, prev_needs_space
NormalizeChildren(ch, i, parts, prev_needs_space) ==
    IF i > Len(ch) THEN parts
    ELSE IF ch[i].type \in {"comment", "initializer_list", "argument_list"}
    THEN NormalizeChildren(ch, i + 1, parts, prev_needs_space)
    ELSE IF _get_node_text(ch[i]) = "{" THEN parts
    ELSE LET text == _normalize_type(ch[i])
         IN  IF text = ""
             THEN NormalizeChildren(ch, i + 1, parts, prev_needs_space)
             ELSE NormalizeChildren(ch, i + 1,
                     parts
                       \o (IF parts # "" /\ prev_needs_space /\ isalnum(FirstChar(text))
                           THEN " " ELSE "")
                       \o text,
                     isalnum(LastChar(text)))

\* <<template name or "", template_argument_list or NoNode>>
_extract_template_info(type_node) ==
    LET template_name_node == _find_child_by_type(type_node, {"type_identifier"})
        template_args == _find_child_by_type(type_node, {"template_argument_list"})
    IN  <<IF template_name_node # NoNode THEN _get_node_text(template_name_node) ELSE "",
          template_args>>

---------------------------------------------------------------------------
(* Methods and parameters *)

\* the name of one parameter_declaration
ParamName(child) ==
    LET ident == _find_child_by_type(child, {"identifier"})
        ref == _find_child_by_type(child, {"reference_declarator"})
        ptr == _find_child_by_type(child, {"pointer_declarator"})
        nested(d) == LET identifier == _find_child_by_type(d, {"identifier"})
                     IN  IF identifier # NoNode THEN _get_node_text(identifier) ELSE "arg"
    IN  IF ident # NoNode THEN _get_node_text(ident)
        ELSE IF ref # NoNode THEN nested(ref)
        ELSE IF ptr # NoNode THEN nested(ptr)
        ELSE "arg"

RECURSIVE ParseParamsFrom(_, _)
ParseParamsFrom(ch, i) ==
    IF i > Len(ch) THEN <<>>
    ELSE IF ch[i].type # "parameter_declaration" THEN ParseParamsFrom(ch, i + 1)
    ELSE LET type_node == _find_child_by_type(ch[i],
                 {"primitive_type", "type_identifier", "qualified_identifier", "template_type"})
             param_type == IF type_node # NoNode THEN _normalize_type(type_node) ELSE "unknown"
         IN  (IF param_type # "unknown"
              THEN <<  <<param_type, ParamName(ch[i])>>  >>
              ELSE <<>>) \o ParseParamsFrom(ch, i + 1)

_parse_parameters(param_list) == ParseParamsFrom(param_list.children, 1)

RECURSIVE FirstNotInFrom(_, _, _)
FirstNotInFrom(ch, skip_types, i) ==
    IF i > Len(ch) THEN NoNode
    ELSE IF ch[i].type \notin skip_types THEN ch[i]
    ELSE FirstNotInFrom(ch, skip_types, i + 1)

\* any('async' in text(child) for attribute_declaration children)
HasAsyncAttribute(node) ==
    \E i \in 1..Len(node.children) :
        /\ node.children[i].type = "attribute_declaration"
        /\ contains(_get_node_text(node.children[i]), "async")

\* fault: the method is named by the first child of its declarator, whatever
\* it is, and destructors and operators are not skipped
_parse_method_unfiltered(node, func_declarator, class_name, is_inline) ==
    LET method_name == _get_node_text(func_declarator.children[1])
        params_node == _find_child_by_type(func_declarator, {"parameter_list"})
    IN  IF params_node = NoNode THEN None
        ELSE MethodInfo(method_name,
                        IF method_name = class_name THEN "" ELSE "void",
                        _parse_parameters(params_node),
                        IF is_inline THEN FALSE ELSE HasAsyncAttribute(node))

_parse_method(node, func_declarator, class_name, is_inline) ==
    LET name_types == IF is_inline THEN {"field_identifier", "identifier"}
                      ELSE {"field_identifier"}
        method_name_node == _find_child_by_type(func_declarator, name_types)
        params_node == _find_child_by_type(func_declarator, {"parameter_list"})
        method_name == _get_node_text(method_name_node)
        is_constructor == (method_name = class_name)
        skip_types == IF is_inline
                      THEN {"function_declarator", "compound_statement", "type_qualifier"}
                      ELSE {"attribute_declaration", "field_identifier",
                            "function_declarator", ";"}
        return_type_node == FirstNotInFrom(node.children, skip_types, 1)
        return_type == IF is_constructor THEN ""
                       ELSE IF return_type_node # NoNode
                       THEN _normalize_type(return_type_node)
                       ELSE "void"
        is_async == IF is_inline THEN FALSE ELSE HasAsyncAttribute(node)
    IN  IF method_name_node = NoNode \/ params_node = NoNode THEN None
        ELSE IF startswith(method_name, "~") \/ startswith(method_name, "operator")
        THEN None
        ELSE MethodInfo(method_name, return_type, _parse_parameters(params_node), is_async)

---------------------------------------------------------------------------
(* Member classifier *)

\* the last of the children at the positions hits, else NoNode: what a loop
\* that assigns a variable at every such child leaves in it
LastChildAt(node, hits) ==
    IF hits = {} THEN NoNode
    ELSE node.children[CHOOSE i \in hits : \A j \in hits : j <= i]

RECURSIVE EnumValuesFrom(_, _)
EnumValuesFrom(ch, i) ==
    IF i > Len(ch) THEN <<>>
    ELSE LET identifier == _find_child_by_type(ch[i], {"identifier"})
         IN  (IF ch[i].type = "enumerator" /\ identifier # NoNode
              THEN <<_get_node_text(identifier)>>
              ELSE <<>>) \o EnumValuesFrom(ch, i + 1)

\* process_field, node.type == 'enum_specifier'
ProcessEnum(node, class_info) ==
    LET IsClassKw(c) == _get_node_text(c) = "class"
        IsName(c) == ~IsClassKw(c) /\ c.type = "type_identifier"
        IsList(c) == ~IsClassKw(c) /\ c.type # "type_identifier"
                        /\ c.type = "enumerator_list"
        is_enum_class == \E i \in 1..Len(node.children) : IsClassKw(node.children[i])
        name_node == LastChildAt(node, {i \in 1..Len(node.children) : IsName(node.children[i])})
        enum_name == IF name_node = NoNode THEN "" ELSE _get_node_text(name_node)
        enumerator_list ==
            LastChildAt(node, {i \in 1..Len(node.children) : IsList(node.children[i])})
        enum_values == IF enumerator_list = NoNode THEN <<>>
                       ELSE EnumValuesFrom(enumerator_list.children, 1)
    IN  [class_info EXCEPT !.enums =
            Append(@, EnumInfo(IF enum_name = "" THEN "<anonymous>" ELSE enum_name,
                               enum_values, is_enum_class))]

\* process_field, node.type == 'function_definition'
ProcessInline(node, class_info) ==
    LET func_declarator == _find_child_by_type(node, {"function_declarator"})
        method == _parse_method(node, func_declarator, class_info.name, TRUE)
    IN  IF func_declarator = NoNode THEN class_info
        ELSE IF method = None THEN class_info
        ELSE IF method.name = class_info.name
        THEN [class_info EXCEPT !.constructors = Append(@, method)]
        ELSE [class_info EXCEPT !.sync_methods = Append(@, method)]

\* process_field, field_declaration with a function_declarator
ProcessDeclaredMethod(node, func_declarator, class_info) ==
    LET method == _parse_method(node, func_declarator, class_info.name, FALSE)
    IN  IF method = None THEN class_info
        ELSE IF method.name = class_info.name
        THEN [class_info EXCEPT !.constructors = Append(@, method)]
        ELSE IF method.is_async
        THEN [class_info EXCEPT !.async_methods = Append(@, method)]
        ELSE [class_info EXCEPT !.sync_methods = Append(@, method)]

RECURSIVE EventArgsFrom(_, _)
EventArgsFrom(ch, i) ==
    IF i > Len(ch) THEN <<>>
    ELSE (IF ch[i].type = "type_descriptor" THEN <<_normalize_type(ch[i])>> ELSE <<>>)
            \o EventArgsFrom(ch, i + 1)

\* process_field, the constant branch
ProcessConstant(node, declarator_node, class_info) ==
    LET IsConst(c) ==
            \/ _get_node_text(c) \in {"const", "constexpr"}
            \/ /\ c.type = "type_qualifier"
               /\ (contains(_get_node_text(c), "const")
                     \/ contains(_get_node_text(c), "constexpr"))
        IsStatic(c) == ~IsConst(c) /\ _get_node_text(c) = "static"
        IsType(c) == /\ ~IsConst(c)
                     /\ _get_node_text(c) # "static"
                     /\ c.type \in {"primitive_type", "type_identifier",
                                    "qualified_identifier", "sized_type_specifier"}
        has_const == \E i \in 1..Len(node.children) : IsConst(node.children[i])
        is_static == \E i \in 1..Len(node.children) : IsStatic(node.children[i])
        actual_type_node ==
            LastChildAt(node, {i \in 1..Len(node.children) : IsType(node.children[i])})
    IN  IF has_const /\ actual_type_node # NoNode
        THEN [class_info EXCEPT !.constants =
                Append(@, ConstInfo(_get_node_text(declarator_node),
                                    _normalize_type(actual_type_node), is_static))]
        ELSE class_info

\* process_field, field_declaration without a function_declarator
ProcessData(node, class_info) ==
    LET type_node == _find_child_by_type(node, {"template_type"})
        declarator_node == _find_child_by_type(node, {"field_identifier"})
        info == _extract_template_info(type_node)
        template_name == info[1]
        template_args == info[2]
        member_name == _get_node_text(declarator_node)
        type_desc == _find_child_by_type(template_args, {"type_descriptor"})
        prop_type == IF template_args # NoNode /\ type_desc # NoNode
                     THEN _normalize_type(type_desc) ELSE "unknown"
        arg_types == IF template_args # NoNode
                     THEN EventArgsFrom(template_args.children, 1) ELSE <<>>
    IN  IF type_node # NoNode /\ declarator_node # NoNode
            /\ template_name \in {"Property", "property"}
        THEN [class_info EXCEPT !.properties =
                Append(@, PropertyInfo(member_name, prop_type))]
        ELSE IF type_node # NoNode /\ declarator_node # NoNode
            /\ template_name \in {"Event", "event"}
        THEN [class_info EXCEPT !.events = Append(@, EventInfo(member_name, arg_types))]
        ELSE IF declarator_node # NoNode
        THEN ProcessConstant(node, declarator_node, class_info)
        ELSE class_info

process_field(node, access, class_info) ==
    IF node.type \notin {"field_declaration", "function_definition", "enum_specifier"}
    THEN class_info
    ELSE IF access # "public" THEN class_info
    ELSE IF node.type = "enum_specifier" THEN ProcessEnum(node, class_info)
    ELSE IF node.type = "function_definition" THEN ProcessInline(node, class_info)
    ELSE LET func_declarator == _find_child_by_type(node, {"function_declarator"})
         IN  IF func_declarator # NoNode
             THEN ProcessDeclaredMethod(node, func_declarator, class_info)
             ELSE ProcessData(node, class_info)

\* the access level an access_specifier node sets; the current one if its
\* text names none
NextAccess(node, current_access) ==
    LET access_text == _get_node_text(node)
    IN  IF contains(access_text, "public") THEN "public"
        ELSE IF contains(access_text, "private") THEN "private"
        ELSE IF contains(access_text, "protected") THEN "protected"
        ELSE current_access

RECURSIVE walk(_, _)
RECURSIVE WalkChildren(_, _, _)

\* st = [current_access, class_info]: the nonlocal access level and the
\* descriptor being filled
walk(node, st) ==
    LET st1 == IF node.type = "access_specifier"
               THEN [st EXCEPT !.current_access = NextAccess(node, @)]
               ELSE [st EXCEPT !.class_info =
                        process_field(node, st.current_access, @)]
    IN  WalkChildren(node.children, 1, st1)

\* `for child in node.children: walk(child)`: each call completes before the next
WalkChildren(ch, i, st) ==
    IF i > Len(ch) THEN st
    ELSE LET after == walk(ch[i], st)
         IN  Then(after, WalkChildren(ch, i + 1, after))

_extract_all_members(class_body, class_info) ==
    walk(class_body, [current_access |-> "private", class_info |-> class_info]).class_info

---------------------------------------------------------------------------
(* Class locator *)

DefaultConstructor(class_name) == MethodInfo(class_name, "", <<>>, FALSE)

\* fault: the default constructor is never added
AddDefaultConstructor_never(class_info) == class_info

\* fault: the default constructor is added whatever was recorded
AddDefaultConstructor_always(class_info) ==
    [class_info EXCEPT !.constructors = Append(@, DefaultConstructor(class_info.name))]

\* the implicit default constructor of _parse_class
AddDefaultConstructor(class_info) ==
    IF class_info.constructors = <<>>
    THEN [class_info EXCEPT !.constructors =
            Append(@, DefaultConstructor(class_info.name))]
    ELSE class_info

\* fault: the filter by name is missing
_parse_class_any(node, target_class_name, namespace) ==
    LET IsName(c) == c.type = "type_identifier"
        IsBody(c) == c.type = "field_declaration_list"
        name_node == LastChildAt(node, {i \in 1..Len(node.children) : IsName(node.children[i])})
        class_name == IF name_node = NoNode THEN "" ELSE _get_node_text(name_node)
        class_body == LastChildAt(node, {i \in 1..Len(node.children) : IsBody(node.children[i])})
    IN  IF class_name = "" \/ class_body = NoNode THEN None
        ELSE AddDefaultConstructor(
                _extract_all_members(class_body, ClassInfo(class_name, namespace)))

\* fault: a class without a body yields an empty descriptor
_parse_class_bodiless(node, target_class_name, namespace) ==
    LET IsName(c) == c.type = "type_identifier"
        IsBody(c) == c.type = "field_declaration_list"
        name_node == LastChildAt(node, {i \in 1..Len(node.children) : IsName(node.children[i])})
        class_name == IF name_node = NoNode THEN "" ELSE _get_node_text(name_node)
        class_body == LastChildAt(node, {i \in 1..Len(node.children) : IsBody(node.children[i])})
    IN  IF class_name = "" THEN None
        ELSE IF class_name # target_class_name THEN None
        ELSE IF class_body = NoNode
        THEN AddDefaultConstructor(ClassInfo(class_name, namespace))
        ELSE AddDefaultConstructor(
                _extract_all_members(class_body, ClassInfo(class_name, namespace)))

_parse_class(node, target_class_name, namespace) ==
    LET IsName(c) == c.type = "type_identifier"
        IsBody(c) == c.type = "field_declaration_list"
        name_node == LastChildAt(node, {i \in 1..Len(node.children) : IsName(node.children[i])})
        class_name == IF name_node = NoNode THEN "" ELSE _get_node_text(name_node)
        class_body == LastChildAt(node, {i \in 1..Len(node.children) : IsBody(node.children[i])})
    IN  IF class_name = "" \/ class_body = NoNode THEN None
        ELSE IF class_name # target_class_name THEN None
        ELSE AddDefaultConstructor(
                _extract_all_members(class_body, ClassInfo(class_name, namespace)))

RECURSIVE _find_class(_, _, _)
RECURSIVE FindInChildren(_, _, _, _)

\* fault: a class of another name ends the search of its subtree
_find_class_pruning(node, target_class_name, namespace) ==
    LET IsNsName(c) == c.type = "namespace_identifier"
        IsNsBody(c) == c.type # "namespace_identifier" /\ c.type = "declaration_list"
        name_node == LastChildAt(node, {i \in 1..Len(node.children) : IsNsName(node.children[i])})
        ns_name == IF name_node = NoNode THEN "" ELSE _get_node_text(name_node)
        ns_body == LastChildAt(node, {i \in 1..Len(node.children) : IsNsBody(node.children[i])})
    IN  IF node.type = "class_specifier"
        THEN _parse_class(node, target_class_name, namespace)
        ELSE IF node.type = "namespace_definition" /\ ns_name # "" /\ ns_body # NoNode
        THEN FindInChildren(ns_body.children, 1, target_class_name,
                            Append(namespace, ns_name))
        ELSE FindInChildren(node.children, 1, target_class_name, namespace)

_find_class(node, target_class_name, namespace) ==
    LET class_info == IF node.type = "class_specifier"
                      THEN _parse_class(node, target_class_name, namespace)
                      ELSE None
        IsNsName(c) == c.type = "namespace_identifier"
        IsNsBody(c) == c.type # "namespace_identifier" /\ c.type = "declaration_list"
        name_node == LastChildAt(node, {i \in 1..Len(node.children) : IsNsName(node.children[i])})
        ns_name == IF name_node = NoNode THEN "" ELSE _get_node_text(name_node)
        ns_body == LastChildAt(node, {i \in 1..Len(node.children) : IsNsBody(node.children[i])})
    IN  IF class_info # None THEN class_info
        ELSE IF node.type = "namespace_definition" /\ ns_name # "" /\ ns_body # NoNode
        THEN FindInChildren(ns_body.children, 1, target_class_name,
                            Append(namespace, ns_name))
        ELSE FindInChildren(node.children, 1, target_class_name, namespace)

\* fault: the loop returns the result for its first child, found or not
FindInChildren_first(ch, i, target_class_name, namespace) ==
    IF i > Len(ch) THEN None
    ELSE _find_class(ch[i], target_class_name, namespace)

\* the loop `for child in ...: result = _find_class(...); if result: return result`
FindInChildren(ch, i, target_class_name, namespace) ==
    IF i > Len(ch) THEN None
    ELSE LET r == _find_class(ch[i], target_class_name, namespace)
         IN  IF r # None THEN r
             ELSE FindInChildren(ch, i + 1, target_class_name, namespace)

---------------------------------------------------------------------------
(* Decoding failures.  A call raises UnicodeDecodeError when it asks for    *)
(* the text of a node whose bytes do not decode; the operators above give   *)
(* what a call returns when it does not.                                    *)

RECURSIVE _normalize_type_raises(_)
RECURSIVE NormalizeChildren_raises(_, _)

_normalize_type_raises(node) ==
    IF node.type = "comment" THEN FALSE
    ELSE IF node.children = <<>> THEN ~node.utf8
    ELSE NormalizeChildren_raises(node.children, 1)

\* the loop over node.children from the i-th child on
NormalizeChildren_raises(ch, i) ==
    IF i > Len(ch) THEN FALSE
    ELSE IF ch[i].type \in {"comment", "initializer_list", "argument_list"}
    THEN NormalizeChildren_raises(ch, i + 1)
    ELSE IF ~ch[i].utf8 THEN TRUE
    ELSE IF _get_node_text(ch[i]) = "{" THEN FALSE
    ELSE _normalize_type_raises(ch[i]) \/ NormalizeChildren_raises(ch, i + 1)

\* the node whose text names one parameter_declaration, else NoNode
ParamNameNode(child) ==
    LET ident == _find_child_by_type(child, {"identifier"})
        ref == _find_child_by_type(child, {"reference_declarator"})
        ptr == _find_child_by_type(child, {"pointer_declarator"})
    IN  IF ident # NoNode THEN ident
        ELSE IF ref # NoNode THEN _find_child_by_type(ref, {"identifier"})
        ELSE IF ptr # NoNode THEN _find_child_by_type(ptr, {"identifier"})
        ELSE NoNode

_parse_parameters_raises(param_list) ==
    \E i \in 1..Len(param_list.children) :
        LET child == param_list.children[i]
            type_node == _find_child_by_type(child,
                {"primitive_type", "type_identifier", "qualified_identifier", "template_type"})
        IN  /\ child.type = "parameter_declaration"
            /\ \/ type_node # NoNode /\ _normalize_type_raises(type_node)
               \/ ~ParamNameNode(child).utf8

\* any(...) reads the attributes in order and stops at the first that holds 'async'
HasAsyncAttribute_raises(node) ==
    \E i \in 1..Len(node.children) :
        /\ node.children[i].type = "attribute_declaration"
        /\ ~node.children[i].utf8
        /\ \A j \in 1..(i - 1) :
              node.children[j].type = "attribute_declaration"
                  => /\ node.children[j].utf8
                     /\ ~contains(_get_node_text(node.children[j]), "async")

_parse_method_raises(node, func_declarator, class_name, is_inline) ==
    LET name_types == IF is_inline THEN {"field_identifier", "identifier"}
                      ELSE {"field_identifier"}
        method_name_node == _find_child_by_type(func_declarator, name_types)
        params_node == _find_child_by_type(func_declarator, {"parameter_list"})
        method_name == _get_node_text(method_name_node)
        is_constructor == (method_name = class_name)
        skip_types == IF is_inline
                      THEN {"function_declarator", "compound_statement", "type_qualifier"}
                      ELSE {"attribute_declaration", "field_identifier",
                            "function_declarator", ";"}
        return_type_node == FirstNotInFrom(node.children, skip_types, 1)
    IN  IF method_name_node = NoNode \/ params_node = NoNode THEN FALSE
        ELSE IF ~method_name_node.utf8 THEN TRUE
        ELSE IF startswith(method_name, "~") \/ startswith(method_name, "operator")
        THEN FALSE
        ELSE \/ /\ ~is_constructor
                /\ return_type_node # NoNode
                /\ _normalize_type_raises(return_type_node)
             \/ ~is_inline /\ HasAsyncAttribute_raises(node)
             \/ _parse_parameters_raises(params_node)

\* process_field, node.type == 'enum_specifier': the text of every child is
\* read, then that of the enumerators' identifiers
ProcessEnum_raises(node) ==
    IF \E i \in 1..Len(node.children) : ~node.children[i].utf8 THEN TRUE
    ELSE LET IsList(c) == /\ _get_node_text(c) # "class"
                          /\ c.type # "type_identifier"
                          /\ c.type = "enumerator_list"
             enumerator_list ==
                 LastChildAt(node, {i \in 1..Len(node.children) : IsList(node.children[i])})
         IN  \E j \in 1..Len(enumerator_list.children) :
                /\ enumerator_list.children[j].type = "enumerator"
                /\ ~_find_child_by_type(enumerator_list.children[j], {"identifier"}).utf8

\* process_field, the constant branch: the text of every child is read, the
\* constant's name among them, then the type is rendered
ProcessConstant_raises(node) ==
    IF \E i \in 1..Len(node.children) : ~node.children[i].utf8 THEN TRUE
    ELSE LET IsConst(c) ==
                 \/ _get_node_text(c) \in {"const", "constexpr"}
                 \/ /\ c.type = "type_qualifier"
                    /\ (contains(_get_node_text(c), "const")
                          \/ contains(_get_node_text(c), "constexpr"))
             IsType(c) == /\ ~IsConst(c)
                          /\ _get_node_text(c) # "static"
                          /\ c.type \in {"primitive_type", "type_identifier",
                                         "qualified_identifier", "sized_type_specifier"}
             has_const == \E i \in 1..Len(node.children) : IsConst(node.children[i])
             actual_type_node ==
                 LastChildAt(node, {i \in 1..Len(node.children) : IsType(node.children[i])})
         IN  has_const /\ actual_type_node # NoNode
                /\ _normalize_type_raises(actual_type_node)

\* process_field, field_declaration without a function_declarator
ProcessData_raises(node) ==
    LET type_node == _find_child_by_type(node, {"template_type"})
        declarator_node == _find_child_by_type(node, {"field_identifier"})
        template_name_node == _find_child_by_type(type_node, {"type_identifier"})
        template_name == _extract_template_info(type_node)[1]
        template_args == _extract_template_info(type_node)[2]
        type_desc == _find_child_by_type(template_args, {"type_descriptor"})
    IN  IF type_node # NoNode /\ declarator_node # NoNode
        THEN IF ~template_name_node.utf8 \/ ~declarator_node.utf8 THEN TRUE
             ELSE IF template_name \in {"Property", "property"}
             THEN template_args # NoNode /\ type_desc # NoNode
                    /\ _normalize_type_raises(type_desc)
             ELSE IF template_name \in {"Event", "event"}
             THEN /\ template_args # NoNode
                  /\ \E i \in 1..Len(template_args.children) :
                        /\ template_args.children[i].type = "type_descriptor"
                        /\ _normalize_type_raises(template_args.children[i])
             ELSE ProcessConstant_raises(node)
        ELSE IF declarator_node # NoNode THEN ProcessConstant_raises(node)
        ELSE FALSE

process_field_raises(node, access, class_name) ==
    IF node.type \notin {"field_declaration", "function_definition", "enum_specifier"}
    THEN FALSE
    ELSE IF access # "public" THEN FALSE
    ELSE IF node.type = "enum_specifier" THEN ProcessEnum_raises(node)
    ELSE LET func_declarator == _find_child_by_type(node, {"function_declarator"})
         IN  IF node.type = "function_definition"
             THEN func_declarator # NoNode
                    /\ _parse_method_raises(node, func_declarator, class_name, TRUE)
             ELSE IF func_declarator # NoNode
             THEN _parse_method_raises(node, func_declarator, class_name, FALSE)
             ELSE ProcessData_raises(node)

RECURSIVE walk_raises(_, _, _)
RECURSIVE WalkChildren_raises(_, _, _, _)

\* st = [raised, current_access]: whether a text failed to decode so far, and
\* the nonlocal access level
walk_raises(node, st, class_name) ==
    LET st1 == IF node.type = "access_specifier"
               THEN IF ~node.utf8 THEN [st EXCEPT !.raised = TRUE]
                    ELSE [st EXCEPT !.current_access = NextAccess(node, @)]
               ELSE [st EXCEPT !.raised =
                        process_field_raises(node, st.current_access, class_name)]
    IN  IF st1.raised THEN st1
        ELSE WalkChildren_raises(node.children, 1, st1, class_name)

WalkChildren_raises(ch, i, st, class_name) ==
    IF i > Len(ch) \/ st.raised THEN st
    ELSE LET after == walk_raises(ch[i], st, class_name)
         IN  Then(after, WalkChildren_raises(ch, i + 1, after, class_name))

_extract_all_members_raises(class_body, class_name) ==
    walk_raises(class_body, [raised |-> FALSE, current_access |-> "private"],
                class_name).raised

_parse_class_raises(node, target_class_name) ==
    LET IsName(c) == c.type = "type_identifier"
        IsBody(c) == c.type = "field_declaration_list"
        name_node == LastChildAt(node, {i \in 1..Len(node.children) : IsName(node.children[i])})
        class_name == IF name_node = NoNode THEN "" ELSE _get_node_text(name_node)
        class_body == LastChildAt(node, {i \in 1..Len(node.children) : IsBody(node.children[i])})
    IN  IF \E i \in 1..Len(node.children) :
                IsName(node.children[i]) /\ ~node.children[i].utf8
        THEN TRUE
        ELSE IF class_name = "" \/ class_body = NoNode THEN FALSE
        ELSE IF class_name # target_class_name THEN FALSE
        ELSE _extract_all_members_raises(class_body, class_name)

RECURSIVE _find_class_raises(_, _, _)
RECURSIVE FindInChildren_raises(_, _, _, _)

_find_class_raises(node, target_class_name, namespace) ==
    LET IsNsName(c) == c.type = "namespace_identifier"
        IsNsBody(c) == c.type # "namespace_identifier" /\ c.type = "declaration_list"
        name_node == LastChildAt(node, {i \in 1..Len(node.children) : IsNsName(node.children[i])})
        ns_name == IF name_node = NoNode THEN "" ELSE _get_node_text(name_node)
        ns_body == LastChildAt(node, {i \in 1..Len(node.children) : IsNsBody(node.children[i])})
    IN  IF node.type = "class_specifier" /\ _parse_class_raises(node, target_class_name)
        THEN TRUE
        ELSE IF node.type = "class_specifier"
                /\ _parse_class(node, target_class_name, namespace) # None
        THEN FALSE
        ELSE IF node.type = "namespace_definition"
                /\ \E i \in 1..Len(node.children) :
                      IsNsName(node.children[i]) /\ ~node.children[i].utf8
        THEN TRUE
        ELSE IF node.type = "namespace_definition" /\ ns_name # "" /\ ns_body # NoNode
        THEN FindInChildren_raises(ns_body.children, 1, target_class_name,
                                   Append(namespace, ns_name))
        ELSE FindInChildren_raises(node.children, 1, target_class_name, namespace)

\* the loop over the children: a child is searched when none before it
\* raised or held the class
FindInChildren_raises(ch, i, target_class_name, namespace) ==
    IF i > Len(ch) THEN FALSE
    ELSE IF _find_class_raises(ch[i], target_class_name, namespace) THEN TRUE
    ELSE IF _find_class(ch[i], target_class_name, namespace) # None THEN FALSE
    ELSE FindInChildren_raises(ch, i + 1, target_class_name, namespace)

---------------------------------------------------------------------------
(* Type mapper *)

SCALAR_MAP ==
    ("bool" :> "boolean")
    @@ ("char" :> "number")
    @@ ("signed char" :> "number")
    @@ ("unsigned char" :> "number")
    @@ ("short" :> "number")
    @@ ("short int" :> "number")
    @@ ("signed short" :> "number")
    @@ ("signed short int" :> "number")
    @@ ("unsigned short" :> "number")
    @@ ("unsigned short int" :> "number")
    @@ ("int" :> "number")
    @@ ("signed" :> "number")
    @@ ("signed int" :> "number")
    @@ ("unsigned" :> "number")
    @@ ("unsigned int" :> "number")
    @@ ("long" :> "number")
    @@ ("long int" :> "number")
    @@ ("signed long" :> "number")
    @@ ("signed long int" :> "number")
    @@ ("unsigned long" :> "number")
    @@ ("unsigned long int" :> "number")
    @@ ("long long" :> "number")
    @@ ("long long int" :> "number")
    @@ ("signed long long" :> "number")
    @@ ("signed long long int" :> "number")
    @@ ("unsigned long long" :> "number")
    @@ ("unsigned long long int" :> "number")
    @@ ("uint8_t" :> "number")
    @@ ("uint16_t" :> "number")
    @@ ("uint32_t" :> "number")
    @@ ("uint64_t" :> "number")
    @@ ("int8_t" :> "number")
    @@ ("int16_t" :> "number")
    @@ ("int32_t" :> "number")
    @@ ("int64_t" :> "number")
    @@ ("size_t" :> "number")
    @@ ("ssize_t" :> "number")
    @@ ("float" :> "number")
    @@ ("double" :> "number")
    @@ ("long double" :> "number")
    @@ ("std::string" :> "string")
    @@ ("nullptr_t" :> "null")

\* in iteration order
SEQ_CONTAINER_MAP == <<"std::vector", "std::deque", "std::list", "std::array">>

ASSOC_CONTAINER_MAP == <<"std::map", "std::unordered_map">>

\* a returned string, or the ValueError that str.rindex raises
Returned(s) == [kind |-> "str", value |-> s]

ValueError == [kind |-> "ValueError"]

\* fault: the inner type is handed on with blanks appended
InnerOf_padded(cpp_type) ==
    strip(Slice(cpp_type, index(cpp_type, "<") + 1, rindex(cpp_type, ">") - 1))
        \o SubSeq("                                                                                                                        ",
                  1, Len(cpp_type))

\* cpp_type[start:end] between the first '<' and the last '>'
InnerOf(cpp_type) ==
    strip(Slice(cpp_type, index(cpp_type, "<") + 1, rindex(cpp_type, ">") - 1))

\* fault: only the first container name is recognized
FirstPrefixFrom_first(names, cpp_type, i) ==
    IF startswith(cpp_type, names[1] \o "<") THEN names[1] ELSE ""

RECURSIVE FirstPrefixFrom(_, _, _)
\* the first container name n of names with cpp_type.startswith(n + '<'), else ""
FirstPrefixFrom(names, cpp_type, i) ==
    IF i > Len(names) THEN ""
    ELSE IF startswith(cpp_type, names[i] \o "<") THEN names[i]
    ELSE FirstPrefixFrom(names, cpp_type, i + 1)

\* fault: key and value are split at the last comma
comma_pos_last(types, i, depth) ==
    LET hits == {k \in 1..Len(types) : types[k] = ","}
    IN  IF hits = {} THEN 0 ELSE CHOOSE k \in hits : \A j \in hits : j <= k

RECURSIVE comma_pos(_, _, _)
\* the first ',' at depth 0 among the characters types, as enumerate(types)
\* gives them, scanning from position i at the given depth; 0 if none
comma_pos(types, i, depth) ==
    IF i > Len(types) THEN 0
    ELSE IF types[i] = "<" THEN comma_pos(types, i + 1, depth + 1)
    ELSE IF types[i] = ">" THEN comma_pos(types, i + 1, depth - 1)
    ELSE IF types[i] = "," /\ depth = 0 THEN i
    ELSE comma_pos(types, i + 1, depth)

\* fault: the container's target name is used for the array type
ArrayOf_generic(inner_ts) == "Array<" \o inner_ts \o ">"

\* f'{inner_ts}[]'
ArrayOf(inner_ts) == inner_ts \o "[]"

\* f'Record<string, {value_ts}>'
RecordOf(value_ts) == "Record<string, " \o value_ts \o ">"

\* fault: a trailing pointer mark is kept
Undecorate_keep_pointer(cpp_type_in) ==
    strip(remove(remove(strip(cpp_type_in), "const "), "&"))

\* cpp_type.strip().replace('const ', '').replace('&', '').replace('*', '').strip()
Undecorate(cpp_type_in) ==
    strip(remove(remove(remove(strip(cpp_type_in), "const "), "&"), "*"))

RECURSIVE cpp_to_ts_type(_)
RECURSIVE AssocFrom(_, _)

\* the loop over ASSOC_CONTAINER_MAP from its i-th name on
AssocFrom(cpp_type, i) ==
    IF i > Len(ASSOC_CONTAINER_MAP) THEN Returned("unknown")
    ELSE IF ~startswith(cpp_type, ASSOC_CONTAINER_MAP[i] \o "<")
    THEN AssocFrom(cpp_type, i + 1)
    ELSE IF rindex(cpp_type, ">") = 0 THEN ValueError
    ELSE LET types == InnerOf(cpp_type)
             pos == comma_pos(Chars(types), 1, 0)
             key_type == strip(Slice(types, 1, pos - 1))
             value_type == strip(Slice(types, pos + 1, Len(Chars(types))))
             value_ts == cpp_to_ts_type(value_type)
         IN  IF pos = 0 THEN AssocFrom(cpp_type, i + 1)
             ELSE IF key_type # "std::string" THEN Returned("unknown")
             ELSE IF value_ts = ValueError THEN ValueError
             ELSE Returned(RecordOf(value_ts.value))

cpp_to_ts_type(cpp_type_in) ==
    LET cpp_type == Undecorate(cpp_type_in)
        seq_name == FirstPrefixFrom(SEQ_CONTAINER_MAP, cpp_type, 1)
        inner0 == InnerOf(cpp_type)
        inner == IF seq_name = "std::array" /\ contains(inner0, ",")
                 THEN strip(Slice(inner0, 1, index(inner0, ",") - 1))
                 ELSE inner0
        inner_ts == cpp_to_ts_type(inner)
    IN  IF cpp_type \in DOMAIN SCALAR_MAP THEN Returned(SCALAR_MAP[cpp_type])
        ELSE IF seq_name # ""
        THEN IF rindex(cpp_type, ">") = 0 THEN ValueError
             ELSE IF inner_ts = ValueError THEN ValueError
             ELSE Returned(ArrayOf(inner_ts.value))
        ELSE AssocFrom(cpp_type, 1)

RECURSIVE AssocArgumentsFrom(_, _)
\* the argument of the recursive call in the loop over ASSOC_CONTAINER_MAP
\* from its i-th name on, as a set: empty if no call is made
AssocArgumentsFrom(cpp_type, i) ==
    IF i > Len(ASSOC_CONTAINER_MAP) THEN {}
    ELSE IF ~startswith(cpp_type, ASSOC_CONTAINER_MAP[i] \o "<")
    THEN AssocArgumentsFrom(cpp_type, i + 1)
    ELSE IF rindex(cpp_type, ">") = 0 THEN {}
    ELSE LET types == InnerOf(cpp_type)
             pos == comma_pos(Chars(types), 1, 0)
             key_type == strip(Slice(types, 1, pos - 1))
             value_type == strip(Slice(types, pos + 1, Len(Chars(types))))
         IN  IF pos = 0 THEN AssocArgumentsFrom(cpp_type, i + 1)
             ELSE IF key_type # "std::string" THEN {}
             ELSE {value_type}

\* the arguments of the recursive calls cpp_to_ts_type(cpp_type_in) makes
\* itself: the inner type of a sequence container or the value type of an
\* associative one
RecursiveArguments(cpp_type_in) ==
    LET cpp_type == Undecorate(cpp_type_in)
        seq_name == FirstPrefixFrom(SEQ_CONTAINER_MAP, cpp_type, 1)
        inner0 == InnerOf(cpp_type)
        inner == IF seq_name = "std::array" /\ contains(inner0, ",")
                 THEN strip(Slice(inner0, 1, index(inner0, ",") - 1))
                 ELSE inner0
    IN  IF cpp_type \in DOMAIN SCALAR_MAP THEN {}
        ELSE IF seq_name # ""
        THEN IF rindex(cpp_type, ">") = 0 THEN {} ELSE {inner}
        ELSE AssocArgumentsFrom(cpp_type, 1)

---------------------------------------------------------------------------
(* Inputs: syntax trees as the external parser produces them *)

\* bounds of the explored inputs
MaxMembers == 2
MaxNodes == 3
MaxDepth == 3
MaxNest == 2
MaxCut == 2
MaxParts == 3
MaxParams == 2

ClassNames == {"A", "B"}

RECURSIVE Flatten(_)
Flatten(seqs) == IF seqs = <<>> THEN <<>> ELSE Head(seqs) \o Flatten(Tail(seqs))

\* ( int x )
ParamsIntX ==
    Mk("parameter_list",
       <<Tok("("),
         Mk("parameter_declaration", <<Leaf("primitive_type", "int"), Leaf("identifier", "x")>>),
         Tok(")")>>)

NoParams == Mk("parameter_list", <<Tok("("), Tok(")")>>)

\* public: / private: / protected:
AccessItem(a) == <<Mk("access_specifier", <<Tok(a)>>), Tok(":")>>

\* void <name>();
MethodDecl(name) ==
    <<Mk("field_declaration",
         <<Leaf("primitive_type", "void"),
           Mk("function_declarator", <<Leaf("field_identifier", name), NoParams>>),
           Tok(";")>>)>>

\* [[async]] void <name>();
AsyncMethodDecl(name) ==
    <<Mk("field_declaration",
         <<Mk("attribute_declaration",
              <<Tok("[["), Mk("attribute", <<Leaf("identifier", "async")>>), Tok("]]")>>),
           Leaf("primitive_type", "void"),
           Mk("function_declarator", <<Leaf("field_identifier", name), NoParams>>),
           Tok(";")>>)>>

\* int <name>() { }
InlineMethod(name) ==
    <<Mk("function_definition",
         <<Leaf("primitive_type", "int"),
           Mk("function_declarator", <<Leaf("field_identifier", name), NoParams>>),
           Mk("compound_statement", <<Tok("{"), Tok("}")>>)>>)>>

\* <cls>(int x) { }
InlineCtor(cls) ==
    <<Mk("function_definition",
         <<Mk("function_declarator", <<Leaf("identifier", cls), ParamsIntX>>),
           Mk("compound_statement", <<Tok("{"), Tok("}")>>)>>)>>

\* Property<int> <name>;
PropertyDecl(name) ==
    <<Mk("field_declaration",
         <<Mk("template_type",
              <<Leaf("type_identifier", "Property"),
                Mk("template_argument_list",
                   <<Tok("<"),
                     Mk("type_descriptor", <<Leaf("primitive_type", "int")>>),
                     Tok(">")>>)>>),
           Leaf("field_identifier", name),
           Tok(";")>>)>>

\* Event<> <name>;
EventDecl(name) ==
    <<Mk("field_declaration",
         <<Mk("template_type",
              <<Leaf("type_identifier", "Event"),
                Mk("template_argument_list", <<Tok("<"), Tok(">")>>)>>),
           Leaf("field_identifier", name),
           Tok(";")>>)>>

\* [[async]] int* <name>();
AsyncPointerMethodDecl(name) ==
    <<Mk("field_declaration",
         <<Mk("attribute_declaration",
              <<Tok("[["), Mk("attribute", <<Leaf("identifier", "async")>>), Tok("]]")>>),
           Leaf("primitive_type", "int"),
           Mk("pointer_declarator",
              <<Tok("*"),
                Mk("function_declarator", <<Leaf("field_identifier", name), NoParams>>)>>),
           Tok(";")>>)>>

\* [[async]] int <name>() { }
AsyncInlineMethod(name) ==
    <<Mk("function_definition",
         <<Mk("attribute_declaration",
              <<Tok("[["), Mk("attribute", <<Leaf("identifier", "async")>>), Tok("]]")>>),
           Leaf("primitive_type", "int"),
           Mk("function_declarator", <<Leaf("field_identifier", name), NoParams>>),
           Mk("compound_statement", <<Tok("{"), Tok("}")>>)>>)>>

\* property<std::string> <name>;
LowerPropertyDecl(name) ==
    <<Mk("field_declaration",
         <<Mk("template_type",
              <<Leaf("type_identifier", "property"),
                Mk("template_argument_list",
                   <<Tok("<"),
                     Mk("type_descriptor",
                        <<Mk("qualified_identifier",
                             <<Leaf("namespace_identifier", "std"), Tok("::"),
                               Leaf("type_identifier", "string")>>)>>),
                     Tok(">")>>)>>),
           Leaf("field_identifier", name),
           Tok(";")>>)>>

\* const Property<int> <name>;
ConstPropertyDecl(name) ==
    <<Mk("field_declaration",
         <<Mk("type_qualifier", <<Tok("const")>>),
           Mk("template_type",
              <<Leaf("type_identifier", "Property"),
                Mk("template_argument_list",
                   <<Tok("<"),
                     Mk("type_descriptor", <<Leaf("primitive_type", "int")>>),
                     Tok(">")>>)>>),
           Leaf("field_identifier", name),
           Tok(";")>>)>>

\* event<int, bool> <name>;
LowerEventDecl(name) ==
    <<Mk("field_declaration",
         <<Mk("template_type",
              <<Leaf("type_identifier", "event"),
                Mk("template_argument_list",
                   <<Tok("<"),
                     Mk("type_descriptor", <<Leaf("primitive_type", "int")>>),
                     Tok(","),
                     Mk("type_descriptor", <<Leaf("primitive_type", "bool")>>),
                     Tok(">")>>)>>),
           Leaf("field_identifier", name),
           Tok(";")>>)>>

\* const int <name>;
ConstDecl(name) ==
    <<Mk("field_declaration",
         <<Mk("type_qualifier", <<Tok("const")>>),
           Leaf("primitive_type", "int"),
           Leaf("field_identifier", name),
           Tok(";")>>)>>

\* int <name>;
DataDecl(name) ==
    <<Mk("field_declaration",
         <<Leaf("primitive_type", "int"), Leaf("field_identifier", name), Tok(";")>>)>>

\* enum class <name> { X };
EnumDecl(name) ==
    <<Mk("field_declaration",
         <<Mk("enum_specifier",
              <<Tok("enum"), Tok("class"), Leaf("type_identifier", name),
                Mk("enumerator_list",
                   <<Tok("{"), Mk("enumerator", <<Leaf("identifier", "X")>>), Tok("}")>>)>>),
           Tok(";")>>)>>

\* enum <name> { X };
PlainEnumDecl(name) ==
    <<Mk("field_declaration",
         <<Mk("enum_specifier",
              <<Tok("enum"), Leaf("type_identifier", name),
                Mk("enumerator_list",
                   <<Tok("{"), Mk("enumerator", <<Leaf("identifier", "X")>>), Tok("}")>>)>>),
           Tok(";")>>)>>

\* enum struct <name> { X };
StructEnumDecl(name) ==
    <<Mk("field_declaration",
         <<Mk("enum_specifier",
              <<Tok("enum"), Tok("struct"), Leaf("type_identifier", name),
                Mk("enumerator_list",
                   <<Tok("{"), Mk("enumerator", <<Leaf("identifier", "X")>>), Tok("}")>>)>>),
           Tok(";")>>)>>

\* static constexpr int <name> = 5;
StaticConstexprDecl(name) ==
    <<Mk("field_declaration",
         <<Mk("storage_class_specifier", <<Tok("static")>>),
           Mk("type_qualifier", <<Tok("constexpr")>>),
           Leaf("primitive_type", "int"),
           Leaf("field_identifier", name),
           Tok("="),
           Leaf("number_literal", "5"),
           Tok(";")>>)>>

\* static int <name>;
StaticDataDecl(name) ==
    <<Mk("field_declaration",
         <<Mk("storage_class_specifier", <<Tok("static")>>),
           Leaf("primitive_type", "int"),
           Leaf("field_identifier", name),
           Tok(";")>>)>>

\* const int* const <name>;
ConstPointerDecl(name) ==
    <<Mk("field_declaration",
         <<Mk("type_qualifier", <<Tok("const")>>),
           Leaf("primitive_type", "int"),
           Mk("pointer_declarator",
              <<Tok("*"), Mk("type_qualifier", <<Tok("const")>>),
                Leaf("field_identifier", name)>>),
           Tok(";")>>)>>

\* const Foo<int> <name>;
ConstGenericDecl(name) ==
    <<Mk("field_declaration",
         <<Mk("type_qualifier", <<Tok("const")>>),
           Mk("template_type",
              <<Leaf("type_identifier", "Foo"),
                Mk("template_argument_list",
                   <<Tok("<"),
                     Mk("type_descriptor", <<Leaf("primitive_type", "int")>>),
                     Tok(">")>>)>>),
           Leaf("field_identifier", name),
           Tok(";")>>)>>

\* ~<cls>() { }
InlineDtor(cls) ==
    <<Mk("function_definition",
         <<Mk("function_declarator",
              <<Mk("destructor_name", <<Tok("~"), Leaf("identifier", cls)>>), NoParams>>),
           Mk("compound_statement", <<Tok("{"), Tok("}")>>)>>)>>

\* bool operator==(int x);
OperatorDecl ==
    <<Mk("field_declaration",
         <<Leaf("primitive_type", "bool"),
           Mk("function_declarator",
              <<Mk("operator_name", <<Tok("operator"), Tok("==")>>), ParamsIntX>>),
           Tok(";")>>)>>

\* [[<attribute>]] void <name>();
AttributedMethodDecl(attribute, name) ==
    <<Mk("field_declaration",
         <<Mk("attribute_declaration",
              <<Tok("[["), Mk("attribute", <<Leaf("identifier", attribute)>>), Tok("]]")>>),
           Leaf("primitive_type", "void"),
           Mk("function_declarator", <<Leaf("field_identifier", name), NoParams>>),
           Tok(";")>>)>>

\* a comment written in Latin-1
Latin1Comment == Latin1("comment", "/* ", " */")

\* int /* Größe */ <name>;
Latin1DataDecl(name) ==
    <<Mk("field_declaration",
         <<Leaf("primitive_type", "int"), Latin1Comment, Leaf("field_identifier", name),
           Tok(";")>>)>>

\* enum <name> { X /* Größe */ };
Latin1EnumDecl(name) ==
    <<Mk("field_declaration",
         <<Mk("enum_specifier",
              <<Tok("enum"), Leaf("type_identifier", name),
                Mk("enumerator_list",
                   <<Tok("{"), Mk("enumerator", <<Leaf("identifier", "X")>>),
                     Latin1Comment, Tok("}")>>)>>),
           Tok(";")>>)>>

\* Foo<int /* Größe */> <name>();
Latin1ReturnDecl(name) ==
    <<Mk("field_declaration",
         <<Mk("template_type",
              <<Leaf("type_identifier", "Foo"),
                Mk("template_argument_list",
                   <<Tok("<"), Mk("type_descriptor", <<Leaf("primitive_type", "int")>>),
                     Latin1Comment, Tok(">")>>)>>),
           Mk("function_declarator", <<Leaf("field_identifier", name), NoParams>>),
           Tok(";")>>)>>

\* void <name>(int /* Größe */ x);
Latin1ParamDecl(name) ==
    <<Mk("field_declaration",
         <<Leaf("primitive_type", "void"),
           Mk("function_declarator",
              <<Leaf("field_identifier", name),
                Mk("parameter_list",
                   <<Tok("("),
                     Mk("parameter_declaration",
                        <<Leaf("primitive_type", "int"), Latin1Comment,
                          Leaf("identifier", "x")>>),
                     Tok(")")>>)>>),
           Tok(";")>>)>>

\* const std::string <name> = "Größe";
Latin1InitializedDecl(name) ==
    <<Mk("field_declaration",
         <<Mk("type_qualifier", <<Tok("const")>>),
           Mk("qualified_identifier",
              <<Leaf("namespace_identifier", "std"), Tok("::"),
                Leaf("type_identifier", "string")>>),
           Leaf("field_identifier", name),
           Tok("="),
           Mk("string_literal",
              <<Tok("\""), Latin1("string_content", "", ""), Tok("\"")>>),
           Tok(";")>>)>>

\* Property<int /* Größe */> <name>;
Latin1PropertyDecl(name) ==
    <<Mk("field_declaration",
         <<Mk("template_type",
              <<Leaf("type_identifier", "Property"),
                Mk("template_argument_list",
                   <<Tok("<"), Mk("type_descriptor", <<Leaf("primitive_type", "int")>>),
                     Latin1Comment, Tok(">")>>)>>),
           Leaf("field_identifier", name),
           Tok(";")>>)>>

Body(items) == Mk("field_declaration_list", <<Tok("{")>> \o Flatten(items) \o <<Tok("}")>>)

\* class <name> { <items> }
ClassDef(name, items) ==
    Mk("class_specifier", <<Tok("class"), Leaf("type_identifier", name), Body(items)>>)

\* class <name>   (a forward declaration)
ClassFwd(name) == Mk("class_specifier", <<Tok("class"), Leaf("type_identifier", name)>>)

\* struct <name> { <items> }
StructDef(name, items) ==
    Mk("struct_specifier", <<Tok("struct"), Leaf("type_identifier", name), Body(items)>>)

\* a class-like node as a member of an enclosing class body: <node> ;
AsMember(node) == <<Mk("field_declaration", <<node, Tok(";")>>)>>

\* class <name> { <access>: void <method>(); };  nested in a class body
NestedClass(name, access, method) ==
    AsMember(ClassDef(name, <<AccessItem(access), MethodDecl(method)>>))

\* struct <name> { void <method>(); };  nested in a class body
NestedStruct(name, method) == AsMember(StructDef(name, <<MethodDecl(method)>>))

\* namespace <name> { <kids> }
Namespace(name, kids) ==
    Mk("namespace_definition",
       <<Tok("namespace"), Leaf("namespace_identifier", name),
         Mk("declaration_list", <<Tok("{")>> \o kids \o <<Tok("}")>>)>>)

\* namespace <outer>::<inner> { <kids> }
NestedNamespace(outer, inner, kids) ==
    Mk("namespace_definition",
       <<Tok("namespace"),
         Mk("nested_namespace_specifier",
            <<Leaf("namespace_identifier", outer), Tok("::"),
              Leaf("namespace_identifier", inner)>>),
         Mk("declaration_list", <<Tok("{")>> \o kids \o <<Tok("}")>>)>>)

TranslationUnit(kids) == Mk("translation_unit", kids)

\* the member declarations a class body is drawn from, by kind
MemberKinds ==
    { "public", "private", "protected", "method", "async_method", "inline_method",
      "inline_ctor", "property", "event", "const", "data", "enum",
      "nested_public", "nested_private",
      "async_pointer_method", "async_inline_method", "lower_property",
      "const_property", "lower_event" }

\* further member declarations, met in bodies of their own
DetailKinds ==
    { "plain_enum", "struct_enum", "enum", "const", "static_constexpr", "static_data",
      "const_pointer", "const_generic", "inline_ctor", "inline_dtor", "operator",
      "async_method", "not_async_method", "nodiscard_method", "nested_struct",
      "enum_method", "enum_property" }

\* the member of class cls of the given kind, as the children it adds to the body
Member(kind, cls) ==
    CASE kind \in {"public", "private", "protected"} -> AccessItem(kind)
      [] kind = "method" -> MethodDecl("f")
      [] kind = "async_method" -> AsyncMethodDecl("h")
      [] kind = "inline_method" -> InlineMethod("g")
      [] kind = "inline_ctor" -> InlineCtor(cls)
      [] kind = "property" -> PropertyDecl("p")
      [] kind = "event" -> EventDecl("e")
      [] kind = "const" -> ConstDecl("c")
      [] kind = "data" -> DataDecl("d")
      [] kind = "enum" -> EnumDecl("E")
      [] kind = "nested_public" -> NestedClass("I", "public", "i")
      [] kind = "nested_private" -> NestedClass("J", "private", "j")
      [] kind = "async_pointer_method" -> AsyncPointerMethodDecl("k")
      [] kind = "async_inline_method" -> AsyncInlineMethod("m")
      [] kind = "lower_property" -> LowerPropertyDecl("q")
      [] kind = "const_property" -> ConstPropertyDecl("r")
      [] kind = "lower_event" -> LowerEventDecl("v")
      [] kind = "plain_enum" -> PlainEnumDecl("U")
      [] kind = "struct_enum" -> StructEnumDecl("S")
      [] kind = "static_constexpr" -> StaticConstexprDecl("ce")
      [] kind = "static_data" -> StaticDataDecl("sd")
      [] kind = "const_pointer" -> ConstPointerDecl("cp")
      [] kind = "const_generic" -> ConstGenericDecl("cg")
      [] kind = "inline_dtor" -> InlineDtor(cls)
      [] kind = "operator" -> OperatorDecl
      [] kind = "not_async_method" -> AttributedMethodDecl("not_async", "w")
      [] kind = "nodiscard_method" -> AttributedMethodDecl("nodiscard", "n")
      [] kind = "nested_struct" -> NestedStruct("T", "t")
      \* enum R er();
      [] kind = "enum_method" ->
            <<Mk("field_declaration",
                 <<Mk("enum_specifier", <<Tok("enum"), Leaf("type_identifier", "R")>>),
                   Mk("function_declarator",
                      <<Leaf("field_identifier", "er"), NoParams>>),
                   Tok(";")>>)>>
      \* Property<enum Q> ep;
      [] kind = "enum_property" ->
            <<Mk("field_declaration",
                 <<Mk("template_type",
                      <<Leaf("type_identifier", "Property"),
                        Mk("template_argument_list",
                           <<Tok("<"),
                             Mk("type_descriptor",
                                <<Mk("enum_specifier",
                                     <<Tok("enum"), Leaf("type_identifier", "Q")>>)>>),
                             Tok(">")>>)>>),
                   Leaf("field_identifier", "ep"),
                   Tok(";")>>)>>
      [] kind = "latin1_comment" -> <<Latin1Comment>>
      [] kind = "latin1_data" -> Latin1DataDecl("ld")
      [] kind = "latin1_enum" -> Latin1EnumDecl("LE")
      [] kind = "latin1_return" -> Latin1ReturnDecl("lr")
      [] kind = "latin1_param" -> Latin1ParamDecl("lp")
      [] kind = "latin1_property" -> Latin1PropertyDecl("lq")
      [] kind = "latin1_initialized" -> Latin1InitializedDecl("li")

\* the sequences over S of length at most n
SeqsUpTo(S, n) == UNION {[1..k -> S] : k \in 0..n}

\* one class A whose body holds the members of the given kinds
BodyTree(kinds) ==
    TranslationUnit(<<ClassDef("A", [i \in 1..Len(kinds) |-> Member(kinds[i], "A")]),
                      Tok(";")>>)

\* the bodies of DetailKinds members under a leading `public:`
DetailBodies == {<<"public">> \o ks : ks \in SeqsUpTo(DetailKinds, MaxMembers)}

\* the bodies of one member with bytes in Latin-1 in it (or a comment in
\* Latin-1 for a member) under an access specifier, a method after it
Latin1Bodies ==
    {<<a, k, "method">> :
        a \in {"public", "private"},
        k \in { "latin1_comment", "latin1_data", "latin1_enum", "latin1_return",
                "latin1_param", "latin1_property", "latin1_initialized" }}

\* the bodies of one member under `public:`, for sources laid out otherwise
LayoutBodies ==
    {<<"public", k>> :
        k \in (MemberKinds \cup DetailKinds) \ {"public", "private", "protected"}}

\* the bodies that put a nested class between an access specifier and a declaration
NestedBetween ==
    {<<a, n, d>> : a \in {"public", "private", "protected"},
                   n \in {"nested_public", "nested_private"},
                   d \in MemberKinds \ {"public", "private", "protected",
                                         "nested_public", "nested_private"}}

\* class-like declarations without inner scopes, by label
LeafLabels == {"class A f", "class A g", "class A;", "struct A"}

\* the declarations put at the bottom of a chain of namespaces
DeepLabels == LeafLabels \cup {"class B", "class A Latin-1"}

LeafNode(label) ==
    CASE label = "class A f" -> ClassDef("A", <<AccessItem("public"), MethodDecl("f")>>)
      [] label = "class A g" -> ClassDef("A", <<AccessItem("public"), MethodDecl("g")>>)
      [] label = "class B" -> ClassDef("B", <<>>)
      [] label = "class A;" -> ClassFwd("A")
      [] label = "class A Latin-1" ->
            ClassDef("A", <<AccessItem("public"), Latin1InitializedDecl("li")>>)
      [] label = "struct A" -> StructDef("A", <<AccessItem("public"), MethodDecl("f")>>)

RECURSIVE Forests(_, _)
RECURSIVE Scopes(_, _)

\* the outlines <<label, inner outlines>> of the declarations made of exactly n
\* classes and namespaces; inside a class there are only classes
Scopes(n, inClass) ==
    {<<l, <<>> >> : l \in IF n = 1 THEN LeafLabels ELSE {}}
      \cup {<<"class B {", k>> : k \in Forests(n - 1, TRUE)}
      \cup {<<l, k>> : l \in IF inClass THEN {} ELSE {"namespace N", "namespace N::M"},
                       k \in IF inClass THEN {} ELSE Forests(n - 1, FALSE)}

\* the sequences of outlines that hold exactly k classes and namespaces
Forests(k, inClass) ==
    IF k = 0 THEN {<<>>}
    ELSE UNION {{<<t>> \o f : t \in Scopes(n, inClass), f \in Forests(k - n, inClass)} :
                n \in 1..k}

RECURSIVE Declaration(_, _)
RECURSIVE Declarations(_, _, _)

\* the children one outlined declaration adds to its enclosing scope
Declaration(outline, inClass) ==
    LET label == outline[1]
        inner == outline[2]
        classLike(c) == IF inClass THEN AsMember(c) ELSE <<c, Tok(";")>>
    IN  CASE label \in LeafLabels -> classLike(LeafNode(label))
          [] label = "class B {" ->
                classLike(ClassDef("B", <<AccessItem("public"), Declarations(inner, 1, TRUE)>>))
          [] label = "namespace N" -> <<Namespace("N", Declarations(inner, 1, FALSE))>>
          [] label = "namespace N::M" ->
                <<NestedNamespace("N", "M", Declarations(inner, 1, FALSE))>>

Declarations(outlines, i, inClass) ==
    IF i > Len(outlines) THEN <<>>
    ELSE Declaration(outlines[i], inClass) \o Declarations(outlines, i + 1, inClass)

\* every arrangement of at most MaxNodes classes and namespaces, outlined
ScopeOutlines == UNION {Forests(k, FALSE) : k \in 0..MaxNodes}

ScopeTree(outlines) == TranslationUnit(Declarations(outlines, 1, FALSE))

RECURSIVE Chain(_, _)
\* leaf enclosed in the namespaces named by names, outer to inner
Chain(names, leaf) ==
    IF names = <<>> THEN <<leaf, Tok(";")>>
    ELSE <<Namespace(Head(names), Chain(Tail(names), leaf))>>

\* a class at the bottom of nested namespaces
DeepTree(names, label) == TranslationUnit(Chain(names, LeafNode(label)))

---------------------------------------------------------------------------
(* Inputs: type signatures *)

BaseSignatures == {"int", "bool", "std::string", "nullptr_t", "Foo", "char const"}

\* the signature of container c with element or value type t
Container(c, t) ==
    CASE c = "vector" -> "std::vector<" \o t \o ">"
      [] c = "deque" -> "std::deque<" \o t \o ">"
      [] c = "list" -> "std::list<" \o t \o ">"
      [] c = "array" -> "std::array<" \o t \o ", 5>"
      [] c = "map" -> "std::map<std::string, " \o t \o ">"
      [] c = "map of int" -> "std::map<int, " \o t \o ">"
      [] c = "unordered_map" -> "std::unordered_map<std::string, " \o t \o ">"

RECURSIVE Signatures(_)
\* the container signatures nested at most n deep
Signatures(n) ==
    IF n = 0 THEN BaseSignatures
    ELSE BaseSignatures
            \cup {Container(c, t) :
                    c \in {"vector", "deque", "list", "array", "map", "map of int",
                           "unordered_map"},
                    t \in Signatures(n - 1)}

\* well-formed signatures, the same cut short, the same with decorations, and
\* the same between a form feed and a tab
SignatureInputs ==
    {SubSeq(s, 1, Len(s) - k) : s \in Signatures(MaxNest), k \in 0..MaxCut}
        \cup {"const " \o s \o "&" : s \in Signatures(MaxNest)}
        \cup {" " \o s \o " *" : s \in Signatures(MaxNest)}
        \cup {"\f" \o s \o "\t" : s \in Signatures(1)}

---------------------------------------------------------------------------
(* Inputs: type subtrees *)

\* std::string
QualifiedString ==
    Mk("qualified_identifier",
       <<Leaf("namespace_identifier", "std"), Tok("::"), Leaf("type_identifier", "string")>>)

\* < /* Größe */ int >
Latin1Arguments ==
    Mk("template_argument_list",
       <<Tok("<"), Latin1Comment, Mk("type_descriptor", <<Leaf("primitive_type", "int")>>),
         Tok(">")>>)

\* the tokens a type node is made of: named and anonymous tokens, one with
\* whitespace around it (a form feed before, a no-break space after), an
\* empty one, a name with a letter outside ASCII and one that is a single
\* character above U+FFFF
TypeParts ==
    { Leaf("primitive_type", "int"), Leaf("type_identifier", "_t"), Tok("unsigned"),
      Tok("::"), Leaf("type_identifier", "\fFoo "), Leaf("identifier", ""),
      Leaf("type_identifier", "Ärger"), Leaf("type_identifier", "𰂀") }

\* a type node with at most MaxParts children; the children a type node
\* treats apart stand next to a token: the skipped kinds, an opening brace, a
\* composite, a comment in Latin-1 and a composite that holds one
TypeNodes ==
    {Mk("type_descriptor", parts) :
        parts \in SeqsUpTo(TypeParts, MaxParts)
                    \cup SeqsUpTo({ Tok("unsigned"), Leaf("comment", "// c"),
                                    Mk("initializer_list",
                                       <<Tok("{"), Leaf("number_literal", "5"), Tok("}")>>),
                                    Tok("{"), Relaid(QualifiedString, "compact"),
                                    Latin1Comment, Latin1Arguments },
                                  MaxParts)}

---------------------------------------------------------------------------
(* Inputs: parameter lists *)

\* the parameters a list is made of, by their source text
ParamTexts ==
    { "int x", "Foo y", "const std::string& s", "int* p", "int** pp", "int",
      "const int&", "unsigned int u", "std::vector<int> v", "auto a", "int d = 5",
      "Opt</* Größe */ int> o" }

ParamDecl(text) ==
    CASE text = "int x" ->
            Mk("parameter_declaration",
               <<Leaf("primitive_type", "int"), Leaf("identifier", "x")>>)
      [] text = "Foo y" ->
            Mk("parameter_declaration",
               <<Leaf("type_identifier", "Foo"), Leaf("identifier", "y")>>)
      [] text = "const std::string& s" ->
            Mk("parameter_declaration",
               <<Mk("type_qualifier", <<Tok("const")>>), QualifiedString,
                 Mk("reference_declarator", <<Tok("&"), Leaf("identifier", "s")>>)>>)
      [] text = "int* p" ->
            Mk("parameter_declaration",
               <<Leaf("primitive_type", "int"),
                 Mk("pointer_declarator", <<Tok("*"), Leaf("identifier", "p")>>)>>)
      [] text = "int** pp" ->
            Mk("parameter_declaration",
               <<Leaf("primitive_type", "int"),
                 Mk("pointer_declarator",
                    <<Tok("*"),
                      Mk("pointer_declarator", <<Tok("*"), Leaf("identifier", "pp")>>)>>)>>)
      [] text = "int" ->
            Mk("parameter_declaration", <<Leaf("primitive_type", "int")>>)
      [] text = "const int&" ->
            Mk("parameter_declaration",
               <<Mk("type_qualifier", <<Tok("const")>>), Leaf("primitive_type", "int"),
                 Mk("abstract_reference_declarator", <<Tok("&")>>)>>)
      [] text = "unsigned int u" ->
            Mk("parameter_declaration",
               <<Mk("sized_type_specifier",
                    <<Tok("unsigned"), Leaf("primitive_type", "int")>>),
                 Leaf("identifier", "u")>>)
      [] text = "std::vector<int> v" ->
            Mk("parameter_declaration",
               <<Mk("qualified_identifier",
                  <<Leaf("namespace_identifier", "std"), Tok("::"),
                    Mk("template_type",
                       <<Leaf("type_identifier", "vector"),
                         Mk("template_argument_list",
                            <<Tok("<"), Mk("type_descriptor", <<Leaf("primitive_type", "int")>>),
                              Tok(">")>>)>>)>>),
                 Leaf("identifier", "v")>>)
      [] text = "auto a" ->
            Mk("parameter_declaration",
               <<Mk("placeholder_type_specifier", <<Tok("auto")>>),
                 Leaf("identifier", "a")>>)
      [] text = "Opt</* Größe */ int> o" ->
            Mk("parameter_declaration",
               <<Mk("template_type", <<Leaf("type_identifier", "Opt"), Latin1Arguments>>),
                 Leaf("identifier", "o")>>)
      [] text = "int d = 5" ->
            Mk("optional_parameter_declaration",
               <<Leaf("primitive_type", "int"), Leaf("identifier", "d"), Tok("="),
                 Leaf("number_literal", "5")>>)

RECURSIVE Separated(_)
\* the parameters with a comma between every two of them
Separated(params) ==
    IF Len(params) <= 1 THEN params
    ELSE <<Head(params), Tok(",")>> \o Separated(Tail(params))

\* ( <text>, ... )
ParameterList(texts) ==
    Mk("parameter_list",
       <<Tok("(")>> \o Separated([i \in 1..Len(texts) |-> ParamDecl(texts[i])])
          \o <<Tok(")")>>)

ParameterLists ==
    {Relaid(ParameterList(texts), layout) :
        texts \in SeqsUpTo(ParamTexts, MaxParams), layout \in Layouts}

---------------------------------------------------------------------------
(* The two entry points *)

EmptyTree == TranslationUnit(<<>>)

\* before parse_header(header_path, class_name) is called
Init ==
    /\ \/ /\ file = "readable"
          /\ target = "A"
          /\ \/ \E kinds \in SeqsUpTo(MemberKinds, MaxMembers) \cup NestedBetween
                                \cup DetailBodies \cup Latin1Bodies :
                    tree = BodyTree(kinds)
             \/ \E kinds \in LayoutBodies, layout \in Layouts \ {"blank"} :
                    tree = Relaid(BodyTree(kinds), layout)
             \/ \E outlines \in ScopeOutlines : tree = ScopeTree(outlines)
             \/ tree = TranslationUnit(<<ClassFwd("A"), Tok(";"),
                                         LeafNode("class A Latin-1"), Tok(";")>>)
       \/ /\ file = "readable"
          /\ target \in ClassNames
          /\ \E names \in SeqsUpTo({"N", "M"}, MaxDepth), label \in DeepLabels :
                tree = DeepTree(names, label)
       \/ /\ file = "missing"
          /\ target \in ClassNames
          /\ tree = EmptyTree
    /\ sig = ""
    /\ pc = "start"
    /\ result = Pending

\* fault: the failure of open() is swallowed and nothing is found
ParseHeaderUnreadable_swallowed ==
    /\ pc = "start"
    /\ file = "missing"
    /\ result' = None
    /\ pc' = "done"
    /\ UNCHANGED <<file, tree, target, sig>>

\* open() fails: the error propagates to the caller
ParseHeaderUnreadable ==
    /\ pc = "start"
    /\ file = "missing"
    /\ result' = IOError
    /\ pc' = "done"
    /\ UNCHANGED <<file, tree, target, sig>>

\* the file is read and parsed, the tree searched from its root
ParseHeaderFound ==
    /\ pc = "start"
    /\ file = "readable"
    /\ result' = IF _find_class_raises(tree, target, <<>>) THEN UnicodeDecodeError
                  ELSE _find_class(tree, target, <<>>)
    /\ pc' = "done"
    /\ UNCHANGED <<file, tree, target, sig>>

parse_header == ParseHeaderUnreadable \/ ParseHeaderFound

Next == parse_header

Spec == Init /\ [][Next]_vars

\* before cpp_to_ts_type(cpp_type) is called
InitMap ==
    /\ file = "readable"
    /\ tree = EmptyTree
    /\ target = "A"
    /\ sig \in SignatureInputs
    /\ pc = "start"
    /\ result = Pending

MapSignature ==
    /\ pc = "start"
    /\ result' = cpp_to_ts_type(sig)
    /\ pc' = "done"
    /\ UNCHANGED <<file, tree, target, sig>>

NextMap == MapSignature

SpecMap == InitMap /\ [][NextMap]_vars

\* before _normalize_type(source_code, node) is called
InitRender ==
    /\ file = "readable"
    /\ tree \in TypeNodes
    /\ target = "A"
    /\ sig = ""
    /\ pc = "start"
    /\ result = Pending

RenderType ==
    /\ pc = "start"
    /\ result' = IF _normalize_type_raises(tree) THEN UnicodeDecodeError
                  ELSE Returned(_normalize_type(tree))
    /\ pc' = "done"
    /\ UNCHANGED <<file, tree, target, sig>>

NextRender == RenderType

SpecRender == InitRender /\ [][NextRender]_vars

\* before _parse_parameters(source_code, param_list) is called
InitParams ==
    /\ file = "readable"
    /\ tree \in ParameterLists
    /\ target = "A"
    /\ sig = ""
    /\ pc = "start"
    /\ result = Pending

ParseParameters ==
    /\ pc = "start"
    /\ result' = IF _parse_parameters_raises(tree) THEN UnicodeDecodeError
                  ELSE [kind |-> "parameters", value |-> _parse_parameters(tree)]
    /\ pc' = "done"
    /\ UNCHANGED <<file, tree, target, sig>>

NextParams == ParseParameters

SpecParams == InitParams /\ [][NextParams]_vars

---------------------------------------------------------------------------
(* What the tree holds, read off the tree itself *)

RECURSIVE Paths(_)
\* the positions of the nodes of a tree, as sequences of child indices
Paths(node) ==
    {<<>>} \cup UNION {{<<i>> \o p : p \in Paths(node.children[i])} :
                        i \in 1..Len(node.children)}

RECURSIVE NodeAt(_, _)
NodeAt(node, p) == IF p = <<>> THEN node ELSE NodeAt(node.children[Head(p)], Tail(p))

IsPrefix(p, q) == Len(p) <= Len(q) /\ SubSeq(q, 1, Len(p)) = p

\* p comes before q in depth-first pre-order
Before(p, q) ==
    \/ p # q /\ IsPrefix(p, q)
    \/ \E k \in 1..Len(p) :
          /\ k <= Len(q)
          /\ SubSeq(p, 1, k - 1) = SubSeq(q, 1, k - 1)
          /\ p[k] < q[k]

HasChild(node, type, text) ==
    \E i \in 1..Len(node.children) :
        node.children[i].type = type /\ node.children[i].text = text

HasBody(node) ==
    \E i \in 1..Len(node.children) : node.children[i].type = "field_declaration_list"

\* a definition (with a body) of class name
IsClassDefinition(node, name) ==
    node.type = "class_specifier" /\ HasChild(node, "type_identifier", name) /\ HasBody(node)

IsStructDefinition(node, name) ==
    node.type = "struct_specifier" /\ HasChild(node, "type_identifier", name) /\ HasBody(node)

RECURSIVE ClassDefinitions(_, _)
\* the positions below node of the definitions of a class of the given name
ClassDefinitions(node, name) ==
    (IF IsClassDefinition(node, name) THEN {<<>>} ELSE {})
      \cup UNION {{<<i>> \o p : p \in ClassDefinitions(node.children[i], name)} :
                    i \in 1..Len(node.children)}

RECURSIVE HasStructDefinition(_, _)
\* the tree below node defines a struct of the given name
HasStructDefinition(node, name) ==
    \/ IsStructDefinition(node, name)
    \/ \E i \in 1..Len(node.children) : HasStructDefinition(node.children[i], name)

\* where the tree defines a class named target
Matches == ClassDefinitions(tree, target)

FirstMatch == CHOOSE p \in Matches : \A q \in Matches : q = p \/ Before(p, q)

BodyOf(classNode) ==
    classNode.children[CHOOSE i \in 1..Len(classNode.children) :
                            classNode.children[i].type = "field_declaration_list"]

\* the body of the first definition of target
LocatedBody == BodyOf(NodeAt(tree, FirstMatch))

RECURSIVE NamespaceNames(_, _)
\* the namespace_identifier leaves of a namespace's name, in order
NamespaceNames(ch, i) ==
    IF i > Len(ch) THEN <<>>
    ELSE (IF ch[i].type = "namespace_identifier" THEN <<ch[i].text>>
          ELSE IF ch[i].type = "nested_namespace_specifier"
          THEN NamespaceNames(ch[i].children, 1)
          ELSE <<>>) \o NamespaceNames(ch, i + 1)

RECURSIVE EnclosingNamespaces(_, _)
\* the names of the namespaces on the way from node down to position p
EnclosingNamespaces(node, p) ==
    IF p = <<>> THEN <<>>
    ELSE (IF node.type = "namespace_definition"
          THEN NamespaceNames(node.children, 1) ELSE <<>>)
            \o EnclosingNamespaces(node.children[Head(p)], Tail(p))

\* the access level the language gives the k-th child of a class body: that of
\* the last access specifier before it in that body, private if there is none
DeclaredAccess(body, k) ==
    LET specs == {j \in 1..(k - 1) : body.children[j].type = "access_specifier"}
    IN  IF specs = {} THEN "private"
        ELSE body.children[CHOOSE j \in specs : \A l \in specs : l <= j].children[1].text

\* the name a direct member declaration declares, "" if it declares no
\* property, event, constant, enum or method
DeclaredName(decl) ==
    LET fd == _find_child_by_type(decl, {"function_declarator"})
        fi == _find_child_by_type(decl, {"field_identifier"})
        en == _find_child_by_type(decl, {"enum_specifier"})
    IN  IF decl.type \notin {"field_declaration", "function_definition"} THEN ""
        ELSE IF fd # NoNode
        THEN _find_child_by_type(fd, {"field_identifier", "identifier"}).text
        ELSE IF fi # NoNode THEN fi.text
        ELSE IF en # NoNode THEN _find_child_by_type(en, {"type_identifier"}).text
        ELSE ""

NamesOf(entries) == {entries[i].name : i \in 1..Len(entries)}

\* the names in the seven collections, the synthesized constructor apart
RecordedNames(ci) ==
    NamesOf(ci.properties) \cup NamesOf(ci.events) \cup NamesOf(ci.constants)
      \cup NamesOf(ci.enums) \cup NamesOf(ci.sync_methods) \cup NamesOf(ci.async_methods)
      \cup NamesOf(SelectSeq(ci.constructors, LAMBDA m : m # DefaultConstructor(ci.name)))

Located == pc = "done" /\ result.kind = "ClassInfo"

---------------------------------------------------------------------------
(* Claims *)

\* the call has returned a value, not raised
HasReturned ==
    pc = "done" /\ result.kind \notin {"FileNotFoundError", "UnicodeDecodeError"}

\* C1: what locate returns is NotFound or a descriptor whose name is the
\* requested target name, never a descriptor with another name.
C1_NameMatchesTarget ==
    HasReturned =>
        \/ result = None
        \/ result.kind = "ClassInfo" /\ result.name = target

\* C1 witness: the target is returned from a tree that also defines, earlier
\* in the search, a class of another name.
C1_Witness ==
    /\ Located
    /\ result.name = target
    /\ \E n \in ClassNames \ {target} :
          \E p \in ClassDefinitions(tree, n) : Before(p, FirstMatch)

\* C2: every returned descriptor has at least one constructor, whatever the
\* class body holds.
C2_ConstructorsNonEmpty == Located => Len(result.constructors) >= 1

\* C2 witness: a class whose body declares nothing is returned with a constructor.
C2_Witness ==
    /\ Located
    /\ Len(LocatedBody.children) = 2
    /\ result.constructors = <<DefaultConstructor(target)>>

\* C3: no declaration of the located class under private or protected access
\* (also before the first access specifier) appears in any collection.  A name
\* declared in the class body only under non-public access is recorded nowhere.
C3_OnlyPublicRecorded ==
    Located =>
        \A k \in 1..Len(LocatedBody.children) :
            LET name == DeclaredName(LocatedBody.children[k])
            IN  (/\ name # ""
                 /\ \A j \in 1..Len(LocatedBody.children) :
                        DeclaredName(LocatedBody.children[j]) = name
                            => DeclaredAccess(LocatedBody, j) # "public")
                    => name \notin RecordedNames(result)

\* C4: map never fails: for every input string it returns a value.
C4_MapNeverFails == pc = "done" => result.kind = "str"

TargetGrammarBase == {"number", "boolean", "string", "null", "unknown"}

RECURSIVE InTargetGrammar(_)
\* T ::= number | boolean | string | null | unknown | T[] | Record<string, T>
InTargetGrammar(s) ==
    \/ s \in TargetGrammarBase
    \/ /\ Len(s) > 2
       /\ SubSeq(s, Len(s) - 1, Len(s)) = "[]"
       /\ InTargetGrammar(SubSeq(s, 1, Len(s) - 2))
    \/ /\ Len(s) > 16
       /\ SubSeq(s, 1, 15) = "Record<string, "
       /\ SubSeq(s, Len(s), Len(s)) = ">"
       /\ InTargetGrammar(SubSeq(s, 16, Len(s) - 1))

\* C5: every value map returns is a type expression of the target grammar.
C5_OutputInGrammar == (pc = "done" /\ result.kind = "str") => InTargetGrammar(result.value)

\* C5 witness: a composed output, an array inside a string-keyed record.
C5_Witness ==
    /\ pc = "done"
    /\ result.kind = "str"
    /\ startswith(result.value, "Record<string, ")
    /\ contains(result.value, "[]")

\* C6: NotFound is returned exactly when the tree holds no definition of a
\* class with the target name; it is a value apart from every descriptor,
\* which is what is returned otherwise, and an existing class with an empty
\* body gives a descriptor with no properties, events or methods and one
\* constructor.
C6_NotFoundIffAbsent ==
    (pc = "done" /\ file = "readable") =>
        /\ (result = None) <=> (Matches = {})
        /\ (HasReturned /\ result # None) => result.kind = "ClassInfo"
        /\ (Matches # {} /\ Len(LocatedBody.children) = 2) =>
              /\ result.properties = <<>> /\ result.events = <<>>
              /\ result.sync_methods = <<>> /\ result.async_methods = <<>>
              /\ Len(result.constructors) = 1

\* C6 witness: NotFound from a tree that defines a class of another name and
\* only declares the target forward.
C6_Witness ==
    /\ pc = "done"
    /\ result = None
    /\ \E n \in ClassNames \ {target} : ClassDefinitions(tree, n) # {}
    /\ \E p \in Paths(tree) :
          /\ NodeAt(tree, p).type = "class_specifier"
          /\ HasChild(NodeAt(tree, p), "type_identifier", target)

\* the proper ancestors of position p
Ancestors(p) == {SubSeq(p, 1, k) : k \in 0..(Len(p) - 1)}

\* a match lies below a class of another name or below a namespace
MatchInInnerScope ==
    \E p \in Matches : \E a \in Ancestors(p) :
        \/ NodeAt(tree, a).type = "namespace_definition"
        \/ /\ NodeAt(tree, a).type = "class_specifier"
           /\ ~HasChild(NodeAt(tree, a), "type_identifier", target)

\* C7: a class of another name does not prune the search: a definition of the
\* target below such a class, or below a namespace, is found.
C7_MismatchDoesNotPrune ==
    (HasReturned /\ MatchInInnerScope) => result.kind = "ClassInfo"

\* C7 witness: the only definition of the target lies inside a class of
\* another name, and it is returned.
C7_Witness ==
    /\ Located
    /\ Cardinality(Matches) = 1
    /\ \E a \in Ancestors(FirstMatch) :
          /\ NodeAt(tree, a).type = "class_specifier"
          /\ ~HasChild(NodeAt(tree, a), "type_identifier", target)

\* C8: the namespace path of a returned descriptor is the sequence of the
\* names of the namespaces enclosing the located class, outer to inner.
C8_NamespacePath == Located => result.namespace = EnclosingNamespaces(tree, FirstMatch)

\* C9: a struct definition named as the target is located like a class.
C9_StructLocated ==
    (/\ pc = "done"
     /\ file = "readable"
     /\ HasStructDefinition(tree, target))
        => result.kind = "ClassInfo"

\* the constructors member classification records for the located class
RecordedConstructors ==
    _extract_all_members(LocatedBody, ClassInfo(target, <<>>)).constructors

\* C10: a default constructor (class name, empty return type, no parameters,
\* sync) is synthesized if and only if classification recorded no constructor;
\* then it is the only entry, and otherwise no entry is added.
C10_DefaultConstructorIffNone ==
    Located =>
        result.constructors =
            IF RecordedConstructors = <<>>
            THEN <<[kind |-> "MethodInfo", name |-> target, return_type |-> "",
                    parameters |-> <<>>, is_async |-> FALSE]>>
            ELSE RecordedConstructors

\* C10 witness: a class with a declared constructor is returned with exactly
\* that constructor.
C10_Witness ==
    /\ Located
    /\ RecordedConstructors # <<>>
    /\ result.constructors = <<MethodInfo(target, "", << <<"int", "x">> >>, FALSE)>>

---------------------------------------------------------------------------
(* Signatures, read off the string itself *)

\* the positions of character c in s
Positions(s, c) == {i \in 1..Len(s) : SubSeq(s, i, i) = c}

\* the angle-bracket depth at position i of s: opened less closed before i
DepthAt(s, i) ==
    Cardinality({j \in Positions(s, "<") : j < i})
        - Cardinality({j \in Positions(s, ">") : j < i})

\* the commas of s outside every <...>
TopLevelCommas(s) == {i \in Positions(s, ",") : DepthAt(s, i) = 0}

FirstOf(S) == CHOOSE i \in S : \A j \in S : i <= j

\* s is name<...>
IsGeneric(s, name) ==
    /\ startswith(s, name \o "<")
    /\ SubSeq(s, Len(s), Len(s)) = ">"

\* the text between the brackets of name<...>
ArgumentsOf(s, name) == SubSeq(s, Len(name) + 2, Len(s) - 1)

\* the text a mapping returned, "" when it failed
ValueOf(r) == IF r.kind = "str" THEN r.value ELSE ""

Mapped == pc = "done" /\ result.kind = "str"

AssocNames == {"std::map", "std::unordered_map"}

\* the signature without decorations is an associative container with a
\* top-level comma between its arguments
AssocName ==
    LET s == Undecorate(sig)
    IN  IF \E n \in AssocNames :
              IsGeneric(s, n) /\ TopLevelCommas(ArgumentsOf(s, n)) # {}
        THEN CHOOSE n \in AssocNames : IsGeneric(s, n)
        ELSE ""

AssocKey ==
    LET args == ArgumentsOf(Undecorate(sig), AssocName)
    IN  strip(SubSeq(args, 1, FirstOf(TopLevelCommas(args)) - 1))

AssocValue ==
    LET args == ArgumentsOf(Undecorate(sig), AssocName)
    IN  strip(SubSeq(args, FirstOf(TopLevelCommas(args)) + 1, Len(args)))

\* C12: an associative container signature is split at its first comma
\* outside every nested <...>; a key other than std::string gives 'unknown',
\* otherwise the result is 'Record<string, ' + map(value) + '>'.
C12_AssocSplitAtTopLevelComma ==
    (Mapped /\ AssocName # "") =>
        result.value =
            IF AssocKey # "std::string" THEN "unknown"
            ELSE "Record<string, " \o ValueOf(cpp_to_ts_type(AssocValue)) \o ">"

\* C12 witness: a string-keyed map whose value itself holds a comma.
C12_Witness ==
    /\ Mapped
    /\ AssocName = "std::map"
    /\ AssocKey = "std::string"
    /\ contains(AssocValue, ",")
    /\ startswith(result.value, "Record<string, Record<string, ")

NoDecorations(s) == ~contains(s, "const ") /\ ~contains(s, "&") /\ ~contains(s, "*")

SequenceNames == {"std::vector", "std::deque", "std::list"}

\* the sequence container the signature is written with, "" if none
SequenceName ==
    IF \E n \in SequenceNames : IsGeneric(sig, n)
    THEN CHOOSE n \in SequenceNames : IsGeneric(sig, n)
    ELSE ""

\* C13: for std::vector, std::deque and std::list and an element signature T
\* without decorations, map(C<T>) is map(T) followed by '[]'.
C13_SequenceNestingComposes ==
    LET T == ArgumentsOf(sig, SequenceName)
    IN  (/\ pc = "done"
         /\ SequenceName # ""
         /\ NoDecorations(sig)
         /\ cpp_to_ts_type(T).kind = "str")
            => result = Returned(ValueOf(cpp_to_ts_type(T)) \o "[]")

\* C13 witness: a two-level nested sequence of int gives number[][].
C13_Witness ==
    /\ pc = "done"
    /\ SequenceName = "std::deque"
    /\ ArgumentsOf(sig, "std::deque") = "std::list<int>"
    /\ result = Returned("number[][]")

\* the element type T of std::array<T, N>: the text before the first comma
\* outside every nested <...>
ArrayElement ==
    LET args == ArgumentsOf(sig, "std::array")
    IN  strip(SubSeq(args, 1, FirstOf(TopLevelCommas(args)) - 1))

\* C14: for std::array<T, N> the size is discarded at the first top-level
\* comma, so map gives map(T) followed by '[]' also when T holds commas
\* inside nested <...>.
C14_ArrayDiscardsSizeAtTopLevelComma ==
    (/\ pc = "done"
     /\ IsGeneric(sig, "std::array")
     /\ TopLevelCommas(ArgumentsOf(sig, "std::array")) # {}
     /\ cpp_to_ts_type(ArrayElement).kind = "str")
        => result = Returned(ValueOf(cpp_to_ts_type(ArrayElement)) \o "[]")

\* the signature wrapped in decorations and blanks
Decorated(s) == {"  const " \o s \o "& ", " const " \o s \o "*  "}

\* C15: wrapping a signature in a leading const, a trailing & or * and
\* surrounding blanks does not change what map gives for it.
C15_DecorationsIgnored ==
    pc = "done" => \A d \in Decorated(sig) : cpp_to_ts_type(d) = result

\* C15 witness: a container signature that maps to a composed type, and so
\* does its decorated form.
C15_Witness ==
    /\ Mapped
    /\ sig = "std::vector<std::string>"
    /\ result.value = "string[]"
    /\ \A d \in Decorated(sig) : cpp_to_ts_type(d) = Returned("string[]")

\* C16: when the file cannot be read, parse_header surfaces the I/O failure
\* to the caller: the outcome is the error, not NotFound and not a descriptor.
C16_UnreadableSurfacesError ==
    (pc = "done" /\ file = "missing") =>
        /\ result = IOError
        /\ result # None
        /\ result.kind # "ClassInfo"

\* C16 witness: a call on an unreadable file has ended.
C16_Witness == pc = "done" /\ file = "missing" /\ result.kind = "FileNotFoundError"

---------------------------------------------------------------------------
(* Member declarations, read off the class body itself *)

\* the first child of node of the given type, else NoNode
Child(node, type) ==
    LET hits == {i \in 1..Len(node.children) : node.children[i].type = type}
    IN  IF hits = {} THEN NoNode ELSE node.children[FirstOf(hits)]

HasChildOfType(node, type) == Child(node, type) # NoNode

\* the positions in the located class body of its own member declarations
OwnDeclarations ==
    {k \in 1..Len(LocatedBody.children) :
        LocatedBody.children[k].type \in {"field_declaration", "function_definition"}}

OwnDeclaration(k) == LocatedBody.children[k]

IsPublic(k) == DeclaredAccess(LocatedBody, k) = "public"

\* the wrapper a declaration is typed with: the name of its generic type,
\* "" if its type is not generic
WrapperName(decl) ==
    IF HasChildOfType(decl, "template_type")
            /\ HasChildOfType(Child(decl, "template_type"), "type_identifier")
    THEN Child(Child(decl, "template_type"), "type_identifier").text
    ELSE ""

\* the declaration carries a const or constexpr qualifier
IsConstQualified(decl) ==
    \E i \in 1..Len(decl.children) :
        /\ decl.children[i].type = "type_qualifier"
        /\ \E q \in {"const", "constexpr"} : HasChildOfType(decl.children[i], q)

\* the rule of the member classifier that applies first to a declaration:
\* enum, inline-bodied method, declared method or constructor, property or
\* event wrapper, constant; "none" when no rule applies
Rule(decl) ==
    IF HasChildOfType(decl, "enum_specifier") THEN "enum"
    ELSE IF decl.type = "function_definition" THEN "inline"
    ELSE IF HasChildOfType(decl, "function_declarator") THEN "declared"
    ELSE IF WrapperName(decl) \in {"Property", "property"}
            /\ HasChildOfType(decl, "field_identifier") THEN "property"
    ELSE IF WrapperName(decl) \in {"Event", "event"}
            /\ HasChildOfType(decl, "field_identifier") THEN "event"
    ELSE IF IsConstQualified(decl) /\ HasChildOfType(decl, "field_identifier")
            /\ \E t \in {"primitive_type", "type_identifier", "qualified_identifier",
                          "sized_type_specifier"} : HasChildOfType(decl, t)
    THEN "constant"
    ELSE "none"

\* the declaration carries the attribute [[async]]
HasAsyncMarker(decl) ==
    \E i \in 1..Len(decl.children) :
        /\ decl.children[i].type = "attribute_declaration"
        /\ HasChildOfType(decl.children[i], "attribute")
        /\ HasChild(Child(decl.children[i], "attribute"), "identifier", "async")

\* the names some declaration of the class body gives a public member
PublicNames ==
    {DeclaredName(OwnDeclaration(k)) : k \in {j \in OwnDeclarations : IsPublic(j)}}

\* C19: a member declaration has the access level of the last access
\* specifier before it in its class body, private if there is none, and
\* nothing else changes the level: a recognized member is extracted exactly
\* when that level is public.
C19_AccessFromOwnSpecifiers ==
    Located =>
        \A k \in OwnDeclarations :
            LET decl == OwnDeclaration(k)
            IN  (Rule(decl) # "none" /\ DeclaredName(decl) # "")
                    => (DeclaredName(decl) \in RecordedNames(result)
                            <=> DeclaredName(decl) \in PublicNames)

\* the function declarator of a method declaration, directly below the
\* declaration or below the pointer declarator of its return type
MethodDeclarator(decl) ==
    IF HasChildOfType(decl, "function_declarator")
    THEN Child(decl, "function_declarator")
    ELSE IF HasChildOfType(decl, "pointer_declarator")
    THEN Child(Child(decl, "pointer_declarator"), "function_declarator")
    ELSE NoNode

\* the name a method declaration declares, "" if it declares no method
MethodName(decl) ==
    LET fd == MethodDeclarator(decl)
    IN  IF fd = NoNode THEN ""
        ELSE IF HasChildOfType(fd, "field_identifier") THEN Child(fd, "field_identifier").text
        ELSE IF HasChildOfType(fd, "identifier") THEN Child(fd, "identifier").text
        ELSE ""

\* the positions of the public declarations of methods other than constructors
PublicMethods ==
    {k \in OwnDeclarations :
        /\ IsPublic(k)
        /\ MethodName(OwnDeclaration(k)) \notin {"", target}}

\* C11: a public method declared without a body and marked [[async]] is
\* recorded as async and not as sync; a public method with an inline body is
\* recorded as sync and not as async, marked or not.
C11_AsyncOnlyOutOfLine ==
    Located =>
        \A k \in PublicMethods :
            LET decl == OwnDeclaration(k)
                name == MethodName(decl)
            IN  /\ (decl.type = "field_declaration" /\ HasAsyncMarker(decl))
                    => (name \in NamesOf(result.async_methods)
                            /\ name \notin NamesOf(result.sync_methods))
                /\ decl.type = "function_definition"
                    => (name \in NamesOf(result.sync_methods)
                            /\ name \notin NamesOf(result.async_methods))

\* the generic arguments of the wrapper a declaration is typed with, in
\* their declared order
RECURSIVE ArgumentsFrom(_, _)
ArgumentsFrom(list, i) ==
    IF i > Len(list.children) THEN <<>>
    ELSE IF list.children[i].type \in {"<", ",", ">"} THEN ArgumentsFrom(list, i + 1)
    ELSE <<list.children[i]>> \o ArgumentsFrom(list, i + 1)

WrapperArguments(decl) ==
    IF HasChildOfType(Child(decl, "template_type"), "template_argument_list")
    THEN ArgumentsFrom(Child(Child(decl, "template_type"), "template_argument_list"), 1)
    ELSE <<>>

\* the positions of the public members typed with one of the given wrappers
PublicWrapped(names) ==
    {k \in OwnDeclarations :
        /\ IsPublic(k)
        /\ WrapperName(OwnDeclaration(k)) \in names
        /\ HasChildOfType(OwnDeclaration(k), "field_identifier")}

\* the number of entries of a collection equal to e
TimesIn(entries, e) == Cardinality({i \in 1..Len(entries) : entries[i] = e})

\* the property descriptor a property-wrapper member is to yield
PropertyOf(decl) ==
    PropertyInfo(Child(decl, "field_identifier").text,
                 _normalize_type(WrapperArguments(decl)[1]))

PublicProperties == PublicWrapped({"Property", "property"})

\* C17: each public member typed Property<..> or property<..> yields exactly
\* one property descriptor, with the member's name and the canonical
\* rendering of the first generic argument, and the properties collection
\* holds nothing else.
C17_PropertiesFromWrappers ==
    Located =>
        \A e \in {PropertyOf(OwnDeclaration(k)) : k \in PublicProperties}
                    \cup {result.properties[i] : i \in 1..Len(result.properties)} :
            TimesIn(result.properties, e)
                = Cardinality({k \in PublicProperties : PropertyOf(OwnDeclaration(k)) = e})

\* the event descriptor an event-wrapper member is to yield
EventOf(decl) ==
    EventInfo(Child(decl, "field_identifier").text,
              [i \in 1..Len(WrapperArguments(decl))
                  |-> _normalize_type(WrapperArguments(decl)[i])])

PublicEvents == PublicWrapped({"Event", "event"})

\* C18: each public member typed Event<..> or event<..> yields exactly one
\* event descriptor whose argument types are the canonical renderings of all
\* the generic arguments in their declared order, the empty list for a
\* wrapper without arguments.
C18_EventsFromWrappers ==
    Located =>
        \A e \in {EventOf(OwnDeclaration(k)) : k \in PublicEvents} :
            TimesIn(result.events, e)
                = Cardinality({k \in PublicEvents : EventOf(OwnDeclaration(k)) = e})

CollectionNames ==
    {"properties", "events", "constants", "enums", "constructors",
     "sync_methods", "async_methods"}

\* the collections of the result holding an entry of the given name
CollectionsHolding(name) == {c \in CollectionNames : name \in NamesOf(result[c])}

\* the collections the first applicable rule may record a declaration of
\* class cls in; which of the two method collections is the matter of the
\* async marker (C11, C27)
CollectionsFor(decl, cls) ==
    CASE Rule(decl) = "enum" -> {"enums"}
      [] Rule(decl) \in {"inline", "declared"} ->
            IF DeclaredName(decl) = cls THEN {"constructors"}
            ELSE IF Rule(decl) = "declared" THEN {"sync_methods", "async_methods"}
            ELSE {"sync_methods"}
      [] Rule(decl) = "property" -> {"properties"}
      [] Rule(decl) = "event" -> {"events"}
      [] Rule(decl) = "constant" -> {"constants"}
      [] OTHER -> {}

\* the positions of the public declarations that declare a name
PublicDeclarations ==
    {k \in OwnDeclarations : IsPublic(k) /\ DeclaredName(OwnDeclaration(k)) # ""}

RECURSIVE EnumNamesIn(_)
\* the names of the enum specifiers written in a declaration, those of the
\* members of a nested class apart
EnumNamesIn(node) ==
    (IF node.type = "enum_specifier" /\ HasChildOfType(node, "type_identifier")
     THEN {Child(node, "type_identifier").text} ELSE {})
        \cup UNION {EnumNamesIn(node.children[i]) :
                      i \in {j \in 1..Len(node.children) :
                               node.children[j].type # "field_declaration_list"}}

\* the names a record of the declaration can carry: the name it declares and
\* the names of the enums written in it
RecordNames(decl) == {DeclaredName(decl)} \cup EnumNamesIn(decl)

\* the collections of the result holding a record of the declaration
CollectionsRecording(decl) == UNION {CollectionsHolding(n) : n \in RecordNames(decl)}

\* C20: a public declaration is recorded in no collection but the one its
\* first applicable rule (enum, inline method, declared method or
\* constructor, property or event wrapper, constant) records it in, in at
\* most one collection, there no more often than it is declared, and nowhere
\* if no rule applies.
C20_FirstRuleOnly ==
    Located =>
        \A k \in PublicDeclarations :
            LET decl == OwnDeclaration(k)
            IN  /\ CollectionsRecording(decl) \subseteq CollectionsFor(decl, target)
                /\ Cardinality(CollectionsRecording(decl)) <= 1
                /\ \A c \in CollectionsRecording(decl) : \A name \in RecordNames(decl) :
                      Cardinality({i \in 1..Len(result[c]) : result[c][i].name = name})
                        <= Cardinality({j \in OwnDeclarations :
                                          name \in RecordNames(OwnDeclaration(j))})

---------------------------------------------------------------------------
(* Several definitions of the target *)

\* C21: when the tree holds several definitions of a class with the target
\* name, the descriptor returned is that of the first in depth-first
\* pre-order: its members, and the path of the namespaces enclosing it, never
\* those of a later definition.
C21_FirstOfSeveral ==
    (Located /\ Cardinality(Matches) >= 2) =>
        result = _parse_class(NodeAt(tree, FirstMatch), target,
                              EnclosingNamespaces(tree, FirstMatch))

---------------------------------------------------------------------------
(* Enums and constants *)

\* the positions of the public enum declarations of the located class
PublicEnums ==
    {k \in OwnDeclarations :
        IsPublic(k) /\ HasChildOfType(OwnDeclaration(k), "enum_specifier")}

\* the enum is declared with the qualifier class or struct
IsScopedEnum(decl) ==
    \E q \in {"class", "struct"} : HasChildOfType(Child(decl, "enum_specifier"), q)

\* C22: the descriptor of a public enum declaration has its scoped flag set
\* if and only if the enum is declared with `class` or `struct`.
C22_ScopedIffQualified ==
    Located =>
        \A k \in PublicEnums :
            \A i \in 1..Len(result.enums) :
                result.enums[i].name = DeclaredName(OwnDeclaration(k))
                    => (result.enums[i].is_enum_class <=> IsScopedEnum(OwnDeclaration(k)))

\* the name a data member declaration gives its member: the field identifier
\* directly below the declaration or below its pointer or reference
\* declarator, "" if there is none
MemberName(decl) ==
    IF HasChildOfType(decl, "field_identifier") THEN Child(decl, "field_identifier").text
    ELSE IF HasChildOfType(decl, "pointer_declarator")
    THEN Child(Child(decl, "pointer_declarator"), "field_identifier").text
    ELSE IF HasChildOfType(decl, "reference_declarator")
    THEN Child(Child(decl, "reference_declarator"), "field_identifier").text
    ELSE ""

\* the positions of the public data members: no method, no property or event
\* wrapper
PublicData ==
    {k \in OwnDeclarations :
        /\ IsPublic(k)
        /\ OwnDeclaration(k).type = "field_declaration"
        /\ MethodDeclarator(OwnDeclaration(k)) = NoNode
        /\ WrapperName(OwnDeclaration(k)) \notin {"Property", "property", "Event", "event"}
        /\ MemberName(OwnDeclaration(k)) # ""}

\* the declaration has a type child of one of the accepted base-type shapes
HasBaseType(decl) ==
    \E t \in {"primitive_type", "type_identifier", "qualified_identifier",
              "sized_type_specifier"} : HasChildOfType(decl, t)

\* a `static` token is among the children of the declaration
IsStaticMember(decl) ==
    \E i \in 1..Len(decl.children) :
        decl.children[i].type = "static" \/ HasChildOfType(decl.children[i], "static")

\* C23: a public data member is recorded as a constant if and only if it
\* carries a const or constexpr qualifier and has a type child of an accepted
\* base-type shape; the static flag of its descriptor is set if and only if
\* the declaration carries `static`.
C23_ConstantIffQualified ==
    Located =>
        \A k \in PublicData :
            LET decl == OwnDeclaration(k)
            IN  /\ MemberName(decl) \in NamesOf(result.constants)
                    <=> (IsConstQualified(decl) /\ HasBaseType(decl))
                /\ \A i \in 1..Len(result.constants) :
                      result.constants[i].name = MemberName(decl)
                        => (result.constants[i].is_static <=> IsStaticMember(decl))

---------------------------------------------------------------------------
(* Methods *)

\* the method descriptors of the result, over its three collections
MethodEntries ==
    {result.constructors[i] : i \in 1..Len(result.constructors)}
      \cup {result.sync_methods[i] : i \in 1..Len(result.sync_methods)}
      \cup {result.async_methods[i] : i \in 1..Len(result.async_methods)}

\* C24: in a returned descriptor no method is named with a leading '~' or
\* 'operator', every constructor is named as the class and has the empty
\* return type, and no sync or async method is named as the class.
C24_MethodNames ==
    Located =>
        /\ \A m \in MethodEntries :
              ~startswith(m.name, "~") /\ ~startswith(m.name, "operator")
        /\ \A i \in 1..Len(result.constructors) :
              /\ result.constructors[i].name = result.name
              /\ result.constructors[i].return_type = ""
        /\ result.name \notin NamesOf(result.sync_methods) \cup NamesOf(result.async_methods)

\* a class with a public inline destructor and a public declared operator,
\* returned without a method for either
C24_Witness ==
    /\ Located
    /\ \E k \in OwnDeclarations :
          /\ IsPublic(k)
          /\ OwnDeclaration(k).type = "function_definition"
          /\ HasChildOfType(MethodDeclarator(OwnDeclaration(k)), "destructor_name")
    /\ \E k \in OwnDeclarations :
          /\ IsPublic(k)
          /\ OwnDeclaration(k).type = "field_declaration"
          /\ HasChildOfType(MethodDeclarator(OwnDeclaration(k)), "operator_name")
    /\ MethodEntries = {DefaultConstructor(target)}

\* C27: a method is in the async collection only if its declaration has no
\* body and one of its attributes is the marker [[async]]; a method without
\* attributes, or with other attributes only, is not async.
C27_AsyncOnlyByMarker ==
    Located =>
        \A k \in OwnDeclarations :
            LET decl == OwnDeclaration(k)
            IN  MethodName(decl) \in NamesOf(result.async_methods)
                    => (decl.type = "field_declaration" /\ HasAsyncMarker(decl))

---------------------------------------------------------------------------
(* Nested scopes and forward declarations *)

\* the names the declarations of the located class body itself declare
OwnNames == {DeclaredName(OwnDeclaration(k)) : k \in OwnDeclarations}

\* C29: the collections hold only members declared directly in the body of
\* the located class, never a member of a class or struct nested in it.
C29_OnlyOwnMembers == Located => RecordedNames(result) \subseteq OwnNames

RECURSIVE ForwardDeclarations(_, _)
\* the positions below node of the class nodes of the given name without a body
ForwardDeclarations(node, name) ==
    (IF node.type = "class_specifier" /\ HasChild(node, "type_identifier", name)
            /\ ~HasBody(node)
     THEN {<<>>} ELSE {})
      \cup UNION {{<<i>> \o p : p \in ForwardDeclarations(node.children[i], name)} :
                    i \in 1..Len(node.children)}

\* C30: a class node with the target name and no body is never returned and
\* does not end the search: with such a node in the tree, the result is the
\* first definition with a body, NotFound if there is none.
C30_ForwardDeclarationSkipped ==
    (HasReturned /\ ForwardDeclarations(tree, target) # {}) =>
        IF Matches = {} THEN result = None
        ELSE /\ result.kind = "ClassInfo"
             /\ [result EXCEPT !.namespace = <<>>]
                    = _parse_class(NodeAt(tree, FirstMatch), target, <<>>)

\* a forward declaration of the target comes before its definition, and the
\* definition, with its method, is returned
C30_Witness ==
    /\ Located
    /\ \E p \in ForwardDeclarations(tree, target) : Before(p, FirstMatch)
    /\ result.sync_methods # <<>>

---------------------------------------------------------------------------
(* Termination of the type mapper *)

RECURSIVE CallsBelow(_)
\* the signatures cpp_to_ts_type is called with while it maps s, s included
CallsBelow(s) == {s} \cup UNION {CallsBelow(a) : a \in RecursiveArguments(s)}

\* C28: map terminates: every recursive call made while a signature is
\* mapped has an argument strictly shorter than the signature of the call
\* that makes it, so the depth of the recursion is below the input's length.
C28_RecursionOnShorter ==
    pc = "done" =>
        /\ result # Pending
        /\ \A s \in CallsBelow(sig) :
              \A a \in RecursiveArguments(s) : Len(a) < Len(s)
        /\ Cardinality(CallsBelow(sig)) <= Len(sig) + 1

\* a signature mapped by a call within a call within the first call
C28_Witness ==
    /\ pc = "done"
    /\ result.kind = "str"
    /\ \E a \in RecursiveArguments(sig) : RecursiveArguments(a) # {}

---------------------------------------------------------------------------
(* The rendering of a type, read off the node itself *)

\* the positions of the children of node that are rendered: those before
\* the first opening brace that are no comment, initializer list or
\* argument list
RenderedChildren(node) ==
    {i \in 1..Len(node.children) :
        /\ node.children[i].type \notin {"comment", "initializer_list", "argument_list"}
        /\ \A j \in 1..i : node.children[j].text # "{"}

RECURSIVE Rendering(_)
RECURSIVE Joined(_)

\* fragments joined in order: one blank between two fragments where the left
\* one ends and the right one begins with a letter or digit, nothing otherwise
Joined(frags) ==
    IF frags = <<>> THEN ""
    ELSE IF Len(frags) = 1 THEN frags[1]
    ELSE LET left == Joined(SubSeq(frags, 1, Len(frags) - 1))
             last == frags[Len(frags) - 1]
             right == frags[Len(frags)]
         IN  left \o (IF isalnum(LastChar(last)) /\ isalnum(FirstChar(right))
                      THEN " " ELSE "")
                  \o right

\* the rendering the contract gives a node
Rendering(node) ==
    IF node.type = "comment" THEN ""
    ELSE IF node.children = <<>> THEN strip(node.text)
    ELSE LET all == [i \in 1..Len(node.children) |->
                        IF i \in RenderedChildren(node)
                        THEN Rendering(node.children[i]) ELSE ""]
         IN  Joined(SelectSeq(all, LAMBDA f : f # ""))

RECURSIVE LeavesWithoutBlanks(_)
\* no leaf below node has a whitespace character in its text
LeavesWithoutBlanks(node) ==
    IF node.children = <<>>
    THEN \A i \in 1..Len(node.text) : SubSeq(node.text, i, i) \notin Whitespace
    ELSE \A i \in 1..Len(node.children) : LeavesWithoutBlanks(node.children[i])

\* C26: the rendering of a composite node is the concatenation, in order, of
\* the non-empty renderings of its rendered children, with exactly one blank
\* between two adjacent fragments where the left ends and the right begins
\* with a letter or digit; from leaves without whitespace it has no leading,
\* trailing or doubled blank.
C26_RenderJoinsFragments ==
    (HasReturned /\ tree.type = "type_descriptor") =>
        /\ result = Returned(Rendering(tree))
        /\ LeavesWithoutBlanks(tree) =>
              /\ ~startswith(result.value, " ")
              /\ strip(result.value) = result.value
              /\ ~contains(result.value, "  ")

\* a rendering with a blank between two word tokens and none around `::`
C26_Witness ==
    /\ pc = "done"
    /\ tree.type = "type_descriptor"
    /\ result = Returned("unsigned int::")

---------------------------------------------------------------------------
(* Parameters, read off the parameter list itself *)

\* the positions of the parameters of a list, with or without a default value
ParameterPositions(list) ==
    {i \in 1..Len(list.children) :
        list.children[i].type \in {"parameter_declaration",
                                   "optional_parameter_declaration"}}

AcceptedParameterTypes ==
    {"primitive_type", "type_identifier", "qualified_identifier", "template_type"}

\* the type child of a parameter, NoNode if none has an accepted shape
ParameterType(param) ==
    LET hits == {i \in 1..Len(param.children) :
                    param.children[i].type \in AcceptedParameterTypes}
    IN  IF hits = {} THEN NoNode ELSE param.children[FirstOf(hits)]

RECURSIVE NestedIdentifier(_)
\* the identifier inside a reference or pointer declarator, "" if there is none
NestedIdentifier(declarator) ==
    IF HasChildOfType(declarator, "identifier") THEN Child(declarator, "identifier").text
    ELSE IF HasChildOfType(declarator, "reference_declarator")
    THEN NestedIdentifier(Child(declarator, "reference_declarator"))
    ELSE IF HasChildOfType(declarator, "pointer_declarator")
    THEN NestedIdentifier(Child(declarator, "pointer_declarator"))
    ELSE ""

\* the name of a parameter: its own identifier, else the one inside its
\* declarator, else the placeholder
ParameterName(param) ==
    IF NestedIdentifier(param) # "" THEN NestedIdentifier(param) ELSE "arg"

RECURSIVE ParametersFrom(_, _)
\* the (type, name) pairs of the parameters of a list from position i on,
\* those without an accepted type left out
ParametersFrom(list, i) ==
    IF i > Len(list.children) THEN <<>>
    ELSE (IF i \in ParameterPositions(list)
                /\ ParameterType(list.children[i]) # NoNode
          THEN << <<Rendering(ParameterType(list.children[i])),
                    ParameterName(list.children[i])>> >>
          ELSE <<>>) \o ParametersFrom(list, i + 1)

\* C25: the extracted parameters are, in declaration order, the parameters
\* with a type child of an accepted shape, each with its rendered type and
\* its name: its own identifier, else the identifier inside its reference or
\* pointer declarator, else 'arg'; a parameter without such a type child is
\* left out.
C25_ParametersInOrder ==
    (HasReturned /\ tree.type = "parameter_list") =>
        result.value = ParametersFrom(tree, 1)

====
